---- MODULE Spec2Model ----
(***************************************************************************)
(* Discrete-event simulator for workflow scheduling on cloud VMs           *)
(* (belyakov-am/cloud-simulator): the event loop, the VM manager, the cost *)
(* and prediction utilities and the four schedulers (EPSM, EBPSM, DynaNS,  *)
(* Min-MinBUDG), as a state machine.                                       *)
(*                                                                         *)
(* Conventions.                                                            *)
(*  - Virtual time is an integer number of seconds (datetime/timedelta).   *)
(*  - Python floats are modelled as exact rationals: the inputs are chosen *)
(*    so that every quotient the program forms is an integer, except the   *)
(*    EPSM spare times/deadlines and the Min-MinBUDG budgets, which are    *)
(*    kept as numerator/denominator pairs.                                 *)
(*  - Task ids and list positions are 1-based here (0-based in Python).    *)
(*  - Iteration over a Python set (idle_vms, a level of the DAG) has no    *)
(*    fixed order: wherever the order decides the outcome it is a          *)
(*    nondeterministic choice.                                             *)
(*  - A method is modelled by what its body does; keyword arguments that   *)
(*    the callee does not read (reserve_vm's task) are dropped.            *)
(***************************************************************************)
EXTENDS Integers, Sequences, FiniteSets, TLC

(***************************************************************************)
(* Bounds of the model.                                                    *)
(***************************************************************************)
\* Number of workflows the driver submits in one run.
MaxWorkflows == 2

(***************************************************************************)
(* Program constants.                                                      *)
(***************************************************************************)
\* workflows/file.py, utils/task_execution_prediction.py
KILOBYTES_IN_MEGABIT == 125
\* storages/manager.py: Manager.get_storage
read_rate == 1000
write_rate == 1000
\* schedulers/epsm/scheduler.py: Settings
scheduling_interval == 120
provisioning_interval == 600
time_to_shutdown_vm == 600
\* schedulers/ebpsm/scheduler.py: Settings
idle_vm_threshold == 3000
ebpsm_provisioning_interval == 1
\* schedulers/dyna/scheduler.py: Settings
on_demand_conf_max_iter == 1000

\* None of Python, for the optional times and amounts (all of them >= 0).
None == 0 - 1
\* No VM / no task / no workflow in an event's payload.
NoRef == 0

Max2(a, b) == IF a >= b THEN a ELSE b

\* Body(value): names an intermediate result (a local variable of the code)
\* so that it is computed once and read many times.
With(value, Body(_)) == Body(value)

RECURSIVE SeqSum(_)
SeqSum(s) == IF s = <<>> THEN 0 ELSE Head(s) + SeqSum(Tail(s))

RECURSIVE SetMax(_)
SetMax(S) ==
    IF S = {} THEN 0
    ELSE LET x == CHOOSE y \in S : TRUE IN Max2(x, SetMax(S \ {x}))

Range(s) == {s[i] : i \in 1..Len(s)}

(***************************************************************************)
(* VM catalog (resources/vms.json, an input): the enabled VM types in file *)
(* order.  scale is 1 for every catalog type; the synthetic average type   *)
(* of get_average_vm_type carries the sums with scale = number of types,   *)
(* so that cpu/scale and io_bandwidth/scale are the means.                 *)
(***************************************************************************)
Catalog ==
    << [name |-> "fast", cpu |-> 4, memory |-> 4, price |-> 4,
        billing_period |-> 3600, io_bandwidth |-> 100, scale |-> 1],
       [name |-> "slow", cpu |-> 1, memory |-> 1, price |-> 1,
        billing_period |-> 3600, io_bandwidth |-> 100, scale |-> 1] >>

\* sorted(self.vm_types, key=lambda v: v.price): stable insertion sort.
RECURSIVE InsertByPrice(_, _)
InsertByPrice(sorted, v) ==
    IF sorted = <<>> THEN <<v>>
    ELSE IF v.price < Head(sorted).price
         THEN <<v>> \o sorted
         ELSE <<Head(sorted)>> \o InsertByPrice(Tail(sorted), v)

RECURSIVE SortedByPrice(_)
SortedByPrice(types) ==
    IF types = <<>> THEN <<>>
    ELSE InsertByPrice(SortedByPrice(SubSeq(types, 1, Len(types) - 1)),
                       types[Len(types)])

get_vm_types_from_json == SortedByPrice(Catalog)

VARIABLES
    scheduler,       \* name of the scheduler the driver instantiated
    predict_func,    \* name of the prediction model set by the Simulator
    provision_delay, \* vm_manager.provision_delay
    vm_types,        \* vm_manager.vm_types
    workload,        \* the workflows the driver submits (input)
    submitted,       \* how many of them Simulator.submit_workflow has queued
    event_queue,     \* event_loop.event_queue (heapq array)
    next_seq,        \* number of add_event calls so far (ghost)
    last_event,      \* the event the loop dispatched last (ghost)
    current_time,    \* event_loop.current_time
    workflows,       \* scheduler.workflows
    vms,             \* vm_manager.vms, in creation order
    idle_vms,        \* vm_manager.idle_vms
    collector,       \* the MetricCollector
    pc,              \* where the driver / event loop is
    call             \* the last direct call of a unit driver (ghost)

vars == << scheduler, predict_func, provision_delay, vm_types, workload,
           submitted, event_queue, next_seq, last_event, current_time,
           workflows, vms, idle_vms, collector, pc, call >>


(***************************************************************************)
(* Events and the heap (schedulers/event.py, event_loop.py; heapq is the   *)
(* Python standard library, modelled from CPython's Lib/heapq.py).         *)
(***************************************************************************)
EventTypes == {"SUBMIT_WORKFLOW", "SCHEDULE_WORKFLOW", "SCHEDULE_TASK",
               "FINISH_TASK", "MANAGE_RESOURCES"}

\* Event.__init__; seq is a ghost field: the rank of the add_event call.
Event(start_time, type, wf, task, vm) ==
    [start_time |-> start_time, type |-> type, workflow |-> wf,
     task |-> task, vm |-> vm, seq |-> 0]

\* Event.__lt__
EventLt(e1, e2) == e1.start_time < e2.start_time

\* ConfigurationPlan.__lt__ (schedulers/dyna/workflow.py)
ConfigurationPlanLt(p1, p2) == p1.f_metric < p2.f_metric

\* a < b as heapq evaluates it: the __lt__ of the operands' class.
Lt(a, b) ==
    IF "f_metric" \in DOMAIN a THEN ConfigurationPlanLt(a, b)
    ELSE EventLt(a, b)

\* heapq._siftdown(heap, startpos, pos); positions are 0-based as in heapq.
RECURSIVE siftdown_loop(_, _, _, _)
siftdown_loop(heap, startpos, pos, newitem) ==
    IF pos > startpos
    THEN LET parentpos == (pos - 1) \div 2
             parent == heap[parentpos + 1]
         IN  IF Lt(newitem, parent)
             THEN siftdown_loop([heap EXCEPT ![pos + 1] = parent],
                                startpos, parentpos, newitem)
             ELSE [heap EXCEPT ![pos + 1] = newitem]
    ELSE [heap EXCEPT ![pos + 1] = newitem]

siftdown(heap, startpos, pos) ==
    siftdown_loop(heap, startpos, pos, heap[pos + 1])

\* heapq._siftup(heap, pos): bubble the smaller child up to a leaf, then
\* sift the displaced item down to its place.
RECURSIVE siftup_loop(_, _, _, _)
siftup_loop(heap, startpos, pos, newitem) ==
    LET endpos == Len(heap)
        leftpos == 2 * pos + 1
        rightpos == leftpos + 1
    IN  IF leftpos < endpos
        THEN LET childpos ==
                     IF rightpos < endpos
                        /\ ~Lt(heap[leftpos + 1], heap[rightpos + 1])
                     THEN rightpos ELSE leftpos
             IN  siftup_loop([heap EXCEPT ![pos + 1] = heap[childpos + 1]],
                             startpos, childpos, newitem)
        ELSE siftdown([heap EXCEPT ![pos + 1] = newitem], startpos, pos)

siftup(heap, pos) == siftup_loop(heap, pos, pos, heap[pos + 1])

\* heapq.heappush
heappush(heap, item) ==
    siftdown(Append(heap, item), 0, Len(heap))

\* heapq.heappop: <<returned item, heap afterwards>>
heappop(heap) ==
    LET lastelt == heap[Len(heap)]
        rest == SubSeq(heap, 1, Len(heap) - 1)
    IN  IF rest = <<>>
        THEN <<lastelt, rest>>
        ELSE <<rest[1], siftup([rest EXCEPT ![1] = lastelt], 0)>>

\* EventLoop.add_event, on the state record st a handler works on.
add_event(st, event) ==
    [st EXCEPT !.event_queue =
                   heappush(@, [event EXCEPT !.seq = st.next_seq + 1]),
               !.next_seq = @ + 1]

\* EventLoop.peek_closest_event: <<>> for None, else <<event>>.
peek_closest_event(heap) ==
    IF Len(heap) = 0 THEN <<>> ELSE <<heap[1]>>

(***************************************************************************)
(* Files, containers, VMs (workflows/file.py, workflows/container.py,      *)
(* vms/instance.py).                                                       *)
(***************************************************************************)
File(name, size) == [name |-> name, size |-> size]

\* File.size_in_megabits
size_in_megabits(f) == f.size \div KILOBYTES_IN_MEGABIT

Container(workflow_uuid, provision_time) ==
    [workflow_uuid |-> workflow_uuid, provision_time |-> provision_time]

\* VM.__init__; start_time/finish_time are datetime.now() placeholders.
\* transitions is history: the <<from, to>> pairs of every assignment to
\* state this VM has seen.
VM(vm_type) ==
    [type |-> vm_type, start_time |-> 0, finish_time |-> 0,
     last_release_time |-> None, files |-> {}, containers |-> {},
     state |-> "NOT_PROVISIONED", transitions |-> {}]

\* VM.check_if_files_present
check_if_files_present(vm, files) == vm.files \subseteq Range(files)

\* VM.check_if_container_provisioned
check_if_container_provisioned(vm, container) == container \in vm.containers

\* VM.provision_container
provision_container(vm, container) ==
    [vm EXCEPT !.containers = @ \cup {container}]

\* VM.provision
provision(vm, time) ==
    [vm EXCEPT !.start_time = time, !.state = "PROVISIONED",
               !.transitions = @ \cup {<<vm.state, "PROVISIONED">>}]

\* VM.reserve / VM.release / VM.shutdown: the guard is the method's assert,
\* the second operator its assignments.
reserve_ok(vm) == vm.state = "PROVISIONED"
reserve(vm) ==
    [vm EXCEPT !.state = "BUSY",
               !.transitions = @ \cup {<<vm.state, "BUSY">>}]

release_ok(vm) == vm.state = "BUSY"
release(vm) ==
    [vm EXCEPT !.state = "PROVISIONED",
               !.transitions = @ \cup {<<vm.state, "PROVISIONED">>}]

shutdown_ok(vm) == vm.state \notin {"NOT_PROVISIONED", "SHUTDOWN"}
shutdown(vm, time) ==
    [vm EXCEPT !.finish_time = time, !.state = "SHUTDOWN",
               !.transitions = @ \cup {<<vm.state, "SHUTDOWN">>}]

\* bool * price of Python: True is 1, False is 0.
BoolTimes(b, price) == IF b THEN price ELSE 0

\* VM.calculate_cost: (total // period + (total % period)) > 0 is a bool.
calculate_cost(vm, time) ==
    LET vm_type == vm.type
        finish_time == IF time # None THEN time ELSE vm.finish_time
        total_seconds == finish_time - vm.start_time
        billing_periods ==
            (total_seconds \div vm_type.billing_period
             + (total_seconds % vm_type.billing_period)) > 0
    IN  BoolTimes(billing_periods, vm_type.price)

\* VM.idle_time
idle_time(vm, time) ==
    IF vm.last_release_time = None THEN 0
    ELSE vm.last_release_time - time

(***************************************************************************)
(* utils/cost.py                                                           *)
(***************************************************************************)
\* Mutant: no free use of the time left in the last paid period.
calculate_price_for_vm_unpaid(now, use_time, vm) ==
    LET vm_type == vm.type
        vm_working_time == now - vm.start_time
        time_left_in_last_period == vm_working_time % vm_type.billing_period
        use_time_left == use_time - time_left_in_last_period
        billing_periods ==
            (use_time_left \div vm_type.billing_period
             + (use_time_left % vm_type.billing_period)) > 0
    IN  BoolTimes(billing_periods, vm_type.price)

calculate_price_for_vm(now, use_time, vm) ==
    LET vm_type == vm.type
        vm_working_time == now - vm.start_time
        time_left_in_last_period == vm_working_time % vm_type.billing_period
        use_time_left == use_time - time_left_in_last_period
        billing_periods ==
            (use_time_left \div vm_type.billing_period
             + (use_time_left % vm_type.billing_period)) > 0
    IN  IF use_time <= time_left_in_last_period
        THEN 0
        ELSE BoolTimes(billing_periods, vm_type.price)

time_until_next_billing_period(now, vm) ==
    LET vm_type == vm.type
        vm_awake_time == now - vm.start_time
        time_passed_in_current_period ==
            vm_awake_time % vm_type.billing_period
    IN  vm_type.billing_period - time_passed_in_current_period

estimate_price_for_vm_type(use_time, vm_type) ==
    LET billing_periods ==
            (use_time \div vm_type.billing_period
             + (use_time % vm_type.billing_period)) > 0
    IN  BoolTimes(billing_periods, vm_type.price)

(***************************************************************************)
(* utils/task_execution_prediction.py.  vmopt is <<>> for vm=None and      *)
(* <<vm>> for a VM instance.  x / rate for a type whose fields carry       *)
(* scale s is x * s / field.                                               *)
(***************************************************************************)
provision_part(task, vmopt, container_prov, vm_prov) ==
    IF vmopt # <<>>
    THEN (IF vmopt[1].state = "NOT_PROVISIONED" THEN vm_prov ELSE 0)
         + (IF ~check_if_container_provisioned(vmopt[1], task.container)
            THEN container_prov ELSE 0)
    ELSE container_prov + vm_prov

RECURSIVE input_part(_, _, _)
input_part(files, vm_type, vmopt) ==
    IF files = <<>> THEN 0
    ELSE LET f == Head(files)
             vm_read == (size_in_megabits(f) * vm_type.scale)
                            \div vm_type.io_bandwidth
             storage_read ==
                 IF vmopt = <<>>
                    \/ ~check_if_files_present(vmopt[1], <<f>>)
                 THEN size_in_megabits(f) \div read_rate
                 ELSE 0
         IN  vm_read + storage_read + input_part(Tail(files), vm_type, vmopt)

RECURSIVE output_part(_, _)
output_part(files, vm_type) ==
    IF files = <<>> THEN 0
    ELSE LET f == Head(files)
         IN  (size_in_megabits(f) * vm_type.scale) \div vm_type.io_bandwidth
             + size_in_megabits(f) \div write_rate
             + output_part(Tail(files), vm_type)

io_consumption(task, vm_type, vmopt, container_prov, vm_prov) ==
    provision_part(task, vmopt, container_prov, vm_prov)
    + input_part(task.input_files, vm_type, vmopt)
    + output_part(task.output_files, vm_type)

io_and_runtime(task, vm_type, vmopt, container_prov, vm_prov) ==
    provision_part(task, vmopt, container_prov, vm_prov)
    + input_part(task.input_files, vm_type, vmopt)
    + output_part(task.output_files, vm_type)
    + (task.runtime * vm_type.scale) \div vm_type.cpu

\* PREDICT_FUNCTIONS[name], as set by Simulator._set_predict_function.
predict(name, task, vm_type, vmopt, container_prov, vm_prov) ==
    IF name = "io_consumption"
    THEN io_consumption(task, vm_type, vmopt, container_prov, vm_prov)
    ELSE io_and_runtime(task, vm_type, vmopt, container_prov, vm_prov)

(***************************************************************************)
(* vms/manager.py.  The operators work on a record st holding the mutable  *)
(* objects a handler touches (event_queue, next_seq, workflows, vms,       *)
(* idle_vms, collector) and the flag raised, set when an exception leaves  *)
(* the handler.  A VM is identified by its position in st.vms.             *)
(***************************************************************************)
Raise(st) == [st EXCEPT !.raised = TRUE]

\* The statements Body after a call that left st: skipped when the call
\* raised.
Then(st, Body(_)) == IF st.raised THEN st ELSE Body(st)

get_slowest_vm_type(types) == types[1]

get_fastest_vm_type(types) == types[Len(types)]

\* mean(...) of each field: the sums, with scale = len(vm_types).
get_average_vm_type(types) ==
    [name |-> "synthetic",
     cpu |-> SeqSum([i \in 1..Len(types) |-> types[i].cpu]),
     memory |-> SeqSum([i \in 1..Len(types) |-> types[i].memory]),
     price |-> SeqSum([i \in 1..Len(types) |-> types[i].price]),
     billing_period |->
         SeqSum([i \in 1..Len(types) |-> types[i].billing_period]),
     io_bandwidth |-> SeqSum([i \in 1..Len(types) |-> types[i].io_bandwidth]),
     scale |-> Len(types)]

\* get_vm_types(faster_than): the types after the first one equal to it.
RECURSIVE get_vm_types(_, _)
get_vm_types(types, faster_than) ==
    IF types = <<>> THEN <<>>
    ELSE IF Head(types) = faster_than THEN Tail(types)
         ELSE get_vm_types(Tail(types), faster_than)

\* get_idle_vms(task=..., container=...); taskopt/contopt are <<>> for None.
get_idle_vms(st, taskopt, contopt) ==
    IF taskopt = <<>> /\ contopt = <<>>
    THEN st.idle_vms
    ELSE {v \in st.idle_vms :
            \/ /\ taskopt # <<>>
               /\ check_if_files_present(st.vms[v], taskopt[1].input_files)
            \/ /\ contopt # <<>>
               /\ check_if_container_provisioned(st.vms[v], contopt[1])}

\* init_vm: the new VM is st.vms[Len(st.vms)] afterwards.
init_vm(st, vm_type) == [st EXCEPT !.vms = Append(@, VM(vm_type))]

\* Mutant: the source state is not asserted.
provision_vm_unasserted(st, v, time) ==
    [st EXCEPT !.vms[v] = provision(@, time),
               !.idle_vms = @ \cup {v}]

provision_vm(st, v, time) ==
    IF st.vms[v].state # "NOT_PROVISIONED" THEN Raise(st)
    ELSE [st EXCEPT !.vms[v] = provision(@, time),
                    !.idle_vms = @ \cup {v}]

\* Mutant: vm.reserve() is not called.
reserve_vm_no_reserve(st, v) ==
    IF st.vms[v].state # "PROVISIONED" \/ v \notin st.idle_vms
    THEN Raise(st)
    ELSE [st EXCEPT !.idle_vms = @ \ {v}]

\* reserve_vm: assert, vm.reserve (its own assert), idle_vms.remove (KeyError
\* when absent).
reserve_vm(st, v) ==
    IF st.vms[v].state # "PROVISIONED" \/ ~reserve_ok(st.vms[v])
       \/ v \notin st.idle_vms
    THEN Raise(st)
    ELSE [st EXCEPT !.vms[v] = reserve(@),
                    !.idle_vms = @ \ {v}]

\* Mutant: vm.release() is not called.
release_vm_no_release(st, v) ==
    IF v \notin 1..Len(st.vms) THEN Raise(st)
    ELSE [st EXCEPT !.idle_vms = @ \cup {v}]

release_vm(st, v) ==
    IF v \notin 1..Len(st.vms) \/ ~release_ok(st.vms[v]) THEN Raise(st)
    ELSE [st EXCEPT !.vms[v] = release(@),
                    !.idle_vms = @ \cup {v}]

\* shutdown_vm without the removed_vms count.
shutdown_vm_uncounted(st, time, v) ==
    IF st.vms[v].state # "PROVISIONED" \/ v \notin st.idle_vms
    THEN Raise(st)
    ELSE [st EXCEPT !.vms[v] = shutdown(@, time),
                    !.idle_vms = @ \ {v},
                    !.collector.cost =
                        @ + calculate_cost(shutdown(st.vms[v], time), None)]

\* Mutant: the VM's cost is not added to collector.cost.
shutdown_vm_unbilled(st, time, v) ==
    IF st.vms[v].state # "PROVISIONED" \/ v \notin st.idle_vms
    THEN Raise(st)
    ELSE [st EXCEPT !.vms[v] = shutdown(@, time),
                    !.idle_vms = @ \ {v},
                    !.collector.removed_vms = @ + 1]

shutdown_vm(st, time, v) ==
    IF st.vms[v].state # "PROVISIONED" \/ ~shutdown_ok(st.vms[v])
       \/ v \notin st.idle_vms
    THEN Raise(st)
    ELSE [st EXCEPT !.vms[v] = shutdown(@, time),
                    !.idle_vms = @ \ {v},
                    !.collector.removed_vms = @ + 1,
                    !.collector.cost =
                        @ + calculate_cost(shutdown(st.vms[v], time), None)]

\* shutdown_vms(time) with vm_list=None: every VM of idle_vms is shut down
\* and billed; idle_vms itself is not touched.  The order of the set does
\* not change the result (counters and a sum).
RECURSIVE shutdown_vms_loop(_, _, _)
shutdown_vms_loop(st, time, todo) ==
    IF todo = {} \/ st.raised THEN st
    ELSE LET v == CHOOSE x \in todo : TRUE
         IN  IF ~shutdown_ok(st.vms[v]) THEN Raise(st)
             ELSE shutdown_vms_loop(
                      [st EXCEPT
                         !.vms[v] = shutdown(@, time),
                         !.collector.vms_left = @ + 1,
                         !.collector.cost =
                             @ + calculate_cost(shutdown(st.vms[v], time),
                                                None)],
                      time, todo \ {v})

shutdown_vms(st, time) == shutdown_vms_loop(st, time, st.idle_vms)

(***************************************************************************)
(* Workflows and tasks (workflows/task.py, workflows/instance.py) and the  *)
(* metric collector (metric_collector.py).  A workflow's uuid is its       *)
(* position in the workload; a task is referred to as <<uuid, id>>.        *)
(***************************************************************************)
NoTask == <<>>

\* An exact rational num/den (den > 0) for the float seconds of EPSM.
Rat(num, den) == [num |-> num, den |-> den]

\* Task.__init__, with the fields the scheduler subclasses add
\* (epsm/task.py, ebpsm/task.py, dyna/task.py, minmin/task.py).
Task(workflow_uuid, task_id, name, parents, inputs, outputs, runtime, container) ==
    [workflow_uuid |-> workflow_uuid, id |-> task_id, name |-> name,
     parents |-> parents, input_files |-> inputs,
     output_files |-> outputs, runtime |-> runtime,
     container |-> container, state |-> "CREATED",
     history |-> <<"CREATED">>, start_time |-> 0, finish_time |-> 0,
     eft |-> 0, execution_time_prediction |-> 0,
     spare_time |-> Rat(0, 1), deadline |-> Rat(0, 1),
     budget |-> 0, execution_price |-> 0, estimated_time |-> 0]

\* Stats.__init__
Stats ==
    [start_time |-> None, finish_time |-> None, cost |-> 0,
     initialized_vms |-> <<>>, used_vms |-> {},
     deadline |-> None, budget |-> None]

\* MetricCollector.__init__; workflows is the defaultdict(Stats).
MetricCollector(n) ==
    [workflows |-> [w \in 1..n |-> Stats], cost |-> 0,
     start_time |-> None, finish_time |-> None,
     initialized_vms |-> 0, used_vms |-> {}, removed_vms |-> 0,
     vms_left |-> 0, workflows_total_tasks |-> 0,
     scheduled_tasks |-> 0, finished_tasks |-> 0]

\* Task.mark_scheduled / Task.mark_finished: assert, then the assignments.
\* history is a ghost field: every value state has had, in order.
mark_scheduled(task, time) ==
    [task EXCEPT !.state = "SCHEDULED", !.start_time = time,
                 !.history = Append(@, "SCHEDULED")]

mark_finished(task, time) ==
    [task EXCEPT !.state = "FINISHED", !.finish_time = time,
                 !.history = Append(@, "FINISHED")]

\* list.pop(ind) for the first ind with unscheduled_tasks[ind] == task.
RECURSIVE pop_first(_, _)
pop_first(list, x) ==
    IF list = <<>> THEN <<>>
    ELSE IF Head(list) = x THEN Tail(list)
         ELSE <<Head(list)>> \o pop_first(Tail(list), x)

\* Mutant: the state is not asserted and the task stays in unscheduled_tasks.
mark_task_scheduled_again(st, w, time, t) ==
    [st EXCEPT !.workflows[w].tasks[t] = mark_scheduled(@, time)]

\* Workflow.mark_task_scheduled, on workflow w of st.
mark_task_scheduled(st, w, time, t) ==
    IF st.workflows[w].tasks[t].state # "CREATED" THEN Raise(st)
    ELSE [st EXCEPT !.workflows[w].tasks[t] = mark_scheduled(@, time),
                    !.workflows[w].unscheduled_tasks = pop_first(@, t)]

\* Workflow.mark_task_finished
mark_task_finished(st, w, time, t) ==
    IF st.workflows[w].tasks[t].state # "SCHEDULED" THEN Raise(st)
    ELSE [st EXCEPT !.workflows[w].tasks[t] = mark_finished(@, time)]

\* Mutant: any() for all().
can_be_scheduled_any(wf, t) ==
    \/ wf.tasks[t].parents = {}
    \/ \E p \in wf.tasks[t].parents : wf.tasks[p].state = "FINISHED"

\* all(parent.state == FINISHED for parent in t.parents)
can_be_scheduled(wf, t) ==
    \A p \in wf.tasks[t].parents : wf.tasks[p].state = "FINISHED"

(***************************************************************************)
(* schedulers/epsm/scheduler.py                                            *)
(***************************************************************************)
\* Workflow.__init__ and the scheduler's _convert_to_*_instances: the
\* scheduler's own copy of the submitted workflow wfin, all tasks CREATED
\* and unscheduled.  The fields of every scheduler's subclass are present.
\* examined and best_plan_id are ghost fields of the Dyna search: the plans
\* it popped, each with the perf it estimated for it, and the identity of
\* best_plan.
Workflow(wfin, uuid) ==
    [uuid |-> uuid,
     tasks |-> [i \in 1..Len(wfin.tasks) |->
                  Task(uuid, i, wfin.tasks[i].name, wfin.tasks[i].parents,
                       wfin.tasks[i].input_files, wfin.tasks[i].output_files,
                       wfin.tasks[i].runtime, wfin.container)],
     unscheduled_tasks |-> [i \in 1..Len(wfin.tasks) |-> i],
     submit_time |-> wfin.submit_time, deadline |-> wfin.deadline,
     budget |-> wfin.budget, container |-> wfin.container,
     makespan |-> 0, spare_time |-> 0,
     roots |-> {}, levels |-> <<>>, eeoq |-> <<>>, spare_budget |-> 0,
     configuration_plan |-> <<>>, used_money |-> 0, pot |-> 0,
     examined |-> <<>>, best_plan_id |-> NoRef]

\* _calculate_eft for the tasks i..n in list order, on the tasks so far.
RECURSIVE epsm_calculate_efts(_, _, _)
epsm_calculate_efts(tasks, i, vm_type) ==
    IF i > Len(tasks) THEN tasks
    ELSE LET task == tasks[i]
             max_parent_eft == SetMax({tasks[p].eft : p \in task.parents})
             task_execution_time ==
                 predict(predict_func, task, vm_type, <<>>,
                         task.container.provision_time, provision_delay)
         IN  epsm_calculate_efts(
                 [tasks EXCEPT ![i].eft = max_parent_eft + task_execution_time,
                               ![i].execution_time_prediction =
                                   task_execution_time],
                 i + 1, vm_type)

\* _clear_efts
clear_efts(tasks) == [i \in 1..Len(tasks) |-> [tasks[i] EXCEPT !.eft = 0]]

\* The makespan the loop body of _calculate_efts_and_makespan leaves.
makespan_of(tasks) == SetMax({tasks[i].eft : i \in 1..Len(tasks)})

\* _calculate_efts_and_makespan with the deadline test made strict.
RECURSIVE calculate_efts_and_makespan_strict(_, _, _, _)
calculate_efts_and_makespan_strict(wf, types, k, now) ==
    With(epsm_calculate_efts(clear_efts(wf.tasks), 1, types[k]),
         LAMBDA tasks :
             IF now + makespan_of(tasks) < wf.deadline THEN <<TRUE, tasks>>
             ELSE IF k < Len(types)
                  THEN calculate_efts_and_makespan_strict(wf, types, k + 1,
                                                          now)
                  ELSE <<FALSE, tasks>>)

\* _calculate_efts_and_makespan: the first type (cheapest first) whose
\* makespan meets the deadline; <<found, tasks>>, found FALSE for ValueError.
RECURSIVE calculate_efts_and_makespan(_, _, _, _)
calculate_efts_and_makespan(wf, types, k, now) ==
    With(epsm_calculate_efts(clear_efts(wf.tasks), 1, types[k]),
         LAMBDA tasks :
             IF now + makespan_of(tasks) <= wf.deadline THEN <<TRUE, tasks>>
             ELSE IF k < Len(types)
                  THEN calculate_efts_and_makespan(wf, types, k + 1, now)
                  ELSE <<FALSE, tasks>>)

\* _calculate_total_spare_time
calculate_total_spare_time(wf, now) ==
    LET available_time == wf.deadline - now
        spare_time == available_time - wf.makespan
    IN  IF spare_time >= 0 THEN spare_time ELSE 0

\* _distribute_spare_time_among_tasks followed by
\* _calculate_tasks_deadlines, both over the task ids in ids.
distribute_and_deadlines(wf, ids) ==
    [wf EXCEPT !.tasks =
        [i \in 1..Len(wf.tasks) |->
            IF i \notin ids THEN wf.tasks[i]
            ELSE LET task == wf.tasks[i]
                     spare == IF wf.makespan # 0
                              THEN Rat(task.execution_time_prediction
                                           * wf.spare_time, wf.makespan)
                              ELSE Rat(0, 1)
                 IN  [task EXCEPT
                        !.spare_time = spare,
                        !.deadline =
                            Rat((wf.submit_time + task.eft) * spare.den
                                    + spare.num, spare.den)]]]

\* submit_workflow after _calculate_efts_and_makespan returned (wf1 holds
\* the efts and the makespan).
epsm_submit_preprocessed(st, wf1, w, now) ==
    With(distribute_and_deadlines(
             [wf1 EXCEPT !.spare_time = calculate_total_spare_time(wf1, now)],
             1..Len(wf1.tasks)),
         LAMBDA wf3 :
             [add_event(
                  add_event([st EXCEPT !.workflows = (w :> wf3) @@ @],
                            Event(wf3.submit_time, "SCHEDULE_WORKFLOW", w,
                                  NoTask, NoRef)),
                  Event(now + provisioning_interval, "MANAGE_RESOURCES",
                        NoRef, NoTask, NoRef))
              EXCEPT !.collector.workflows[w].deadline = wf3.deadline])

epsm_submit_workflow(st, wfin, w, now) ==
    With(calculate_efts_and_makespan(Workflow(wfin, w), vm_types, 1, now),
         LAMBDA res :
             With([Workflow(wfin, w) EXCEPT !.tasks = res[2],
                                            !.makespan = makespan_of(res[2])],
                  LAMBDA wf1 :
                      IF ~res[1]
                      THEN Raise([st EXCEPT !.workflows = (w :> wf1) @@ @])
                      ELSE epsm_submit_preprocessed(st, wf1, w, now)))

\* schedule_workflow (the same loop in all four schedulers): every task
\* without parents, in list order.
RECURSIVE schedule_workflow_loop(_, _, _, _)
schedule_workflow_loop(st, w, i, now) ==
    IF st.raised \/ i > Len(st.workflows[w].tasks) THEN st
    ELSE IF st.workflows[w].tasks[i].parents # {}
         THEN schedule_workflow_loop(st, w, i + 1, now)
         ELSE schedule_workflow_loop(
                  mark_task_scheduled(
                      add_event(st, Event(now, "SCHEDULE_TASK", NoRef,
                                          <<w, i>>, NoRef)),
                      w, now, i),
                  w, i + 1, now)

schedule_workflow(st, w, now) == schedule_workflow_loop(st, w, 1, now)

\* The total_exec_time _find_cheapest_vm_for_task computes for VM v.
epsm_exec_time_on(st, task, v) ==
    predict(predict_func, task, st.vms[v].type, <<st.vms[v]>>, 0, 0)
    + (IF ~check_if_container_provisioned(st.vms[v], task.container)
       THEN task.container.provision_time ELSE 0)

\* _find_cheapest_vm_for_task: the VMs the loop can return.  The loop keeps
\* the first VM of minimal cost in the set's iteration order, so each VM of
\* minimal cost is a possible result; {} stands for None.
find_cheapest_vm_for_task(st, task, idle, now) ==
    LET fit == {v \in idle :
                  ~((now + epsm_exec_time_on(st, task, v)) * task.deadline.den
                        > task.deadline.num)}
        possible_cost(v) ==
            calculate_price_for_vm(now, epsm_exec_time_on(st, task, v),
                                   st.vms[v])
    IN  {v \in fit : \A u \in fit : possible_cost(v) <= possible_cost(u)}

\* The three searches of schedule_task: VMs with the input files, then VMs
\* with the container, then the remaining idle VMs.
epsm_vm_choices(st, w, t, now) ==
    LET task == st.workflows[w].tasks[t]
        idle_vms_with_input == get_idle_vms(st, <<task>>, <<>>)
        idle_vms_with_container == get_idle_vms(st, <<>>, <<task.container>>)
        rest == (get_idle_vms(st, <<>>, <<>>) \ idle_vms_with_input)
                    \ idle_vms_with_container
        first == find_cheapest_vm_for_task(st, task, idle_vms_with_input, now)
        second == find_cheapest_vm_for_task(st, task,
                                            idle_vms_with_container, now)
    IN  IF first # {} THEN first
        ELSE IF second # {} THEN second
        ELSE find_cheapest_vm_for_task(st, task, rest, now)

\* _find_cheapest_vm_type_for_task without its search: always the fallback,
\* the last (most expensive) type.
find_cheapest_vm_type_for_task_fallback(task, types, k, now) ==
    types[Len(types)]

\* _find_cheapest_vm_type_for_task
RECURSIVE find_cheapest_vm_type_for_task(_, _, _, _)
find_cheapest_vm_type_for_task(task, types, k, now) ==
    LET task_execution_time ==
            predict(predict_func, task, types[k], <<>>,
                    task.container.provision_time, provision_delay)
        possible_finish_time == now + task_execution_time
    IN  IF possible_finish_time * task.deadline.den < task.deadline.num
        THEN types[k]
        ELSE IF k < Len(types)
             THEN find_cheapest_vm_type_for_task(task, types, k + 1, now)
             ELSE types[Len(types)]

\* schedule_task from "if vm is not None" on: provision the VM and the
\* container if required, reserve the VM, enqueue FINISH_TASK.
epsm_place_task(st, w, t, v, now) ==
    LET task == st.workflows[w].tasks[t]
        fresh == st.vms[v].state = "NOT_PROVISIONED"
    IN  Then(IF fresh THEN provision_vm(st, v, now) ELSE st, LAMBDA st1 :
            LET no_container ==
                    ~check_if_container_provisioned(st1.vms[v],
                                                    task.container)
                vm == IF no_container
                      THEN provision_container(st1.vms[v], task.container)
                      ELSE st1.vms[v]
                total_exec_time ==
                    (IF fresh THEN provision_delay ELSE 0)
                    + (IF no_container THEN task.container.provision_time
                       ELSE 0)
                    + predict(predict_func, task, vm.type, <<vm>>, 0, 0)
            IN  With(total_exec_time, LAMBDA exec_time :
                    Then(reserve_vm([st1 EXCEPT !.vms[v] = vm], v),
                         LAMBDA st3 :
                            [add_event(st3, Event(now + exec_time,
                                                  "FINISH_TASK", NoRef,
                                                  <<w, t>>, v))
                             EXCEPT
                               !.collector.workflows[w].used_vms = @ \cup {v},
                               !.collector.used_vms = @ \cup {v},
                               !.collector.workflows[w].cost =
                                   @ + calculate_price_for_vm(now, exec_time,
                                                              vm)])))

\* schedule_task postponing on the spare time alone, whether or not the
\* task has parents.
epsm_schedule_task_spare_time_only(st, w, t, pick, now) ==
    LET task == st.workflows[w].tasks[t]
        spare_time ==
            task.deadline.num
            - (now + task.execution_time_prediction + scheduling_interval)
                  * task.deadline.den
    IN  IF pick # NoRef THEN epsm_place_task(st, w, t, pick, now)
        ELSE IF spare_time <= 0
             THEN epsm_place_task(
                      [init_vm(st, find_cheapest_vm_type_for_task(
                                       task, vm_types, 1, now))
                       EXCEPT !.collector.initialized_vms = @ + 1,
                              !.collector.workflows[w].initialized_vms =
                                  Append(@, Len(st.vms) + 1)],
                      w, t, Len(st.vms) + 1, now)
             ELSE add_event(st, Event(now + scheduling_interval,
                                      "SCHEDULE_TASK", NoRef, <<w, t>>,
                                      NoRef))

\* schedule_task without the spare-time test: a task with parents is
\* postponed whenever no idle VM fits.
epsm_schedule_task_parents_only(st, w, t, pick, now) ==
    LET task == st.workflows[w].tasks[t]
    IN  IF pick # NoRef THEN epsm_place_task(st, w, t, pick, now)
        ELSE IF task.parents = {}
             THEN epsm_place_task(
                      [init_vm(st, find_cheapest_vm_type_for_task(
                                       task, vm_types, 1, now))
                       EXCEPT !.collector.initialized_vms = @ + 1,
                              !.collector.workflows[w].initialized_vms =
                                  Append(@, Len(st.vms) + 1)],
                      w, t, Len(st.vms) + 1, now)
             ELSE add_event(st, Event(now + scheduling_interval,
                                      "SCHEDULE_TASK", NoRef, <<w, t>>,
                                      NoRef))

\* schedule_task; pick is the VM the searches returned (NoRef for None).
epsm_schedule_task(st, w, t, pick, now) ==
    LET task == st.workflows[w].tasks[t]
        \* spare_time = time_left - execution_time_prediction - interval,
        \* times task.deadline.den
        spare_time ==
            task.deadline.num
            - (now + task.execution_time_prediction + scheduling_interval)
                  * task.deadline.den
    IN  IF pick # NoRef THEN epsm_place_task(st, w, t, pick, now)
        ELSE IF spare_time <= 0 \/ task.parents = {}
             THEN epsm_place_task(
                      [init_vm(st, find_cheapest_vm_type_for_task(
                                       task, vm_types, 1, now))
                       EXCEPT !.collector.initialized_vms = @ + 1,
                              !.collector.workflows[w].initialized_vms =
                                  Append(@, Len(st.vms) + 1)],
                      w, t, Len(st.vms) + 1, now)
             ELSE add_event(st, Event(now + scheduling_interval,
                                      "SCHEDULE_TASK", NoRef, <<w, t>>,
                                      NoRef))

\* efts of _update_spare_time: the not-finished tasks in list order; a
\* parent without an entry (a finished one) counts 0.
RECURSIVE update_efts(_, _, _)
update_efts(tasks, i, efts) ==
    IF i > Len(tasks) THEN efts
    ELSE IF tasks[i].state = "FINISHED"
         THEN update_efts(tasks, i + 1, efts)
         ELSE LET max_parent_eft ==
                      SetMax({efts[p] : p \in tasks[i].parents})
              IN  update_efts(tasks, i + 1,
                      [efts EXCEPT ![i] = max_parent_eft
                                  + tasks[i].execution_time_prediction])

\* _update_spare_time: the spare time is not clamped here.
update_spare_time(wf, now) ==
    With(update_efts(wf.tasks, 1, [i \in 1..Len(wf.tasks) |-> 0]),
         LAMBDA efts :
             With(SetMax({efts[i] : i \in 1..Len(wf.tasks)}),
                  LAMBDA makespan :
                      [wf EXCEPT !.makespan = makespan,
                                 !.spare_time = (wf.deadline - now) - makespan]))

\* "for t in workflow.unscheduled_tasks" of finish_task, as the list
\* iterator runs it: position i advances by one per step while
\* mark_task_scheduled pops the element just visited, so the element that
\* slides into its place is not visited in this pass.
RECURSIVE schedule_ready_tasks(_, _, _, _)
schedule_ready_tasks(st, w, i, now) ==
    IF st.raised \/ i > Len(st.workflows[w].unscheduled_tasks) THEN st
    ELSE LET t == st.workflows[w].unscheduled_tasks[i]
         IN  IF ~can_be_scheduled(st.workflows[w], t)
             THEN schedule_ready_tasks(st, w, i + 1, now)
             ELSE schedule_ready_tasks(
                      mark_task_scheduled(
                          add_event(st, Event(now, "SCHEDULE_TASK", NoRef,
                                              <<w, t>>, NoRef)),
                          w, now, t),
                      w, i + 1, now)

epsm_finish_task(st, w, t, v, now) ==
    Then(mark_task_finished(st, w, now, t), LAMBDA st1 :
        Then(release_vm(st1, v), LAMBDA st2 :
            LET task == st2.workflows[w].tasks[t]
                task_extra_time_is_zero ==
                    task.deadline.num = now * task.deadline.den
            IN  IF task_extra_time_is_zero
                THEN schedule_ready_tasks(st2, w, 1, now)
                ELSE With(update_spare_time(st2.workflows[w], now),
                          LAMBDA wf1 :
                              schedule_ready_tasks(
                                  [st2 EXCEPT !.workflows[w] =
                                      distribute_and_deadlines(
                                          wf1, Range(wf1.unscheduled_tasks))],
                                  w, 1, now))))

\* The shutdown loop of manage_resources / finish_task: shutdown_vm for each
\* VM of the list; the VMs are distinct, so the order does not matter.
RECURSIVE shutdown_each(_, _, _)
shutdown_each(st, todo, now) ==
    IF todo = {} \/ st.raised THEN st
    ELSE LET v == CHOOSE x \in todo : TRUE
         IN  shutdown_each(shutdown_vm(st, now, v), todo \ {v}, now)

\* manage_resources shutting down every idle VM, whatever is left of its
\* billing period.
epsm_manage_resources_every_idle(st, next_event, now) ==
    Then(shutdown_each(st, get_idle_vms(st, <<>>, <<>>), now),
         LAMBDA st1 :
             IF next_event = <<>> THEN st1
             ELSE IF next_event[1].type = "MANAGE_RESOURCES" THEN st1
             ELSE add_event(st1, Event(now + provisioning_interval,
                                       "MANAGE_RESOURCES", NoRef, NoTask,
                                       NoRef)))

\* manage_resources re-arming whatever the next event is.
epsm_manage_resources_rearming(st, next_event, now) ==
    Then(shutdown_each(st,
                       {v \in get_idle_vms(st, <<>>, <<>>) :
                           time_until_next_billing_period(now, st.vms[v])
                               < time_to_shutdown_vm},
                       now),
         LAMBDA st1 :
             IF next_event = <<>> THEN st1
             ELSE add_event(st1, Event(now + provisioning_interval,
                                       "MANAGE_RESOURCES", NoRef, NoTask,
                                       NoRef)))

\* manage_resources; next_event is peek_closest_event() (<<>> for None).
epsm_manage_resources(st, next_event, now) ==
    Then(shutdown_each(st,
                       {v \in get_idle_vms(st, <<>>, <<>>) :
                           time_until_next_billing_period(now, st.vms[v])
                               < time_to_shutdown_vm},
                       now),
         LAMBDA st1 :
             IF next_event = <<>> THEN st1
             ELSE IF next_event[1].type = "MANAGE_RESOURCES" THEN st1
             ELSE add_event(st1, Event(now + provisioning_interval,
                                       "MANAGE_RESOURCES", NoRef, NoTask,
                                       NoRef)))

(***************************************************************************)
(* schedulers/ebpsm/scheduler.py                                           *)
(***************************************************************************)
\* workflow.dag as the parser builds it: an edge parent -> child for every
\* parent of every task; only tasks with an edge are nodes.
dag_nodes(tasks) ==
    {i \in 1..Len(tasks) :
        tasks[i].parents # {} \/ \E c \in 1..Len(tasks) : i \in tasks[c].parents}

successors(tasks, S) ==
    {c \in 1..Len(tasks) : tasks[c].parents \cap S # {}}

\* nx.single_source_shortest_path_length: the nodes at distance d from the
\* source, given the frontier at distance d - 1 and the nodes seen so far.
RECURSIVE bfs_levels(_, _, _)
bfs_levels(tasks, frontier, seen) ==
    IF frontier = {} THEN <<>>
    ELSE <<frontier>>
         \o bfs_levels(tasks, successors(tasks, frontier) \ seen,
                       seen \cup successors(tasks, frontier))

\* _allocate_levels: levels[d + 1] is workflow.levels[d], the union over
\* the roots of the tasks at shortest distance d from the root.
allocate_levels(tasks) ==
    LET roots == {i \in dag_nodes(tasks) : tasks[i].parents = {}}
        of(r) == bfs_levels(tasks, {r}, {r})
    IN  [d \in 1..SetMax({Len(of(r)) : r \in roots}) |->
            UNION {IF d <= Len(of(r)) THEN of(r)[d] ELSE {} : r \in roots}]

\* _calculate_efts: _calculate_eft on the slowest type, in list order.
ebpsm_calculate_efts(tasks) ==
    epsm_calculate_efts(tasks, 1, get_slowest_vm_type(vm_types))

\* sorted(list(level), key=eft): every order of the set that is sorted by
\* eft (list(set) has no fixed order and the sort is stable).
RECURSIVE sorted_orders(_, _)
sorted_orders(tasks, S) ==
    IF S = {} THEN { <<>> }
    ELSE UNION { { <<t>> \o rest : rest \in sorted_orders(tasks, S \ {t}) } :
                 t \in {x \in S : \A y \in S : tasks[x].eft <= tasks[y].eft} }

\* _fill_eeoq: the queues the loop over the sorted levels can build.
RECURSIVE fill_eeoq(_, _, _)
fill_eeoq(tasks, levels, d) ==
    IF d > Len(levels) THEN { <<>> }
    ELSE { head \o tail : head \in sorted_orders(tasks, levels[d]),
                          tail \in fill_eeoq(tasks, levels, d + 1) }

\* sorted(vm_types, key=price, reverse=True): stable, descending.
RECURSIVE InsertByPriceDesc(_, _)
InsertByPriceDesc(sorted, v) ==
    IF sorted = <<>> THEN <<v>>
    ELSE IF v.price > Head(sorted).price
         THEN <<v>> \o sorted
         ELSE <<Head(sorted)>> \o InsertByPriceDesc(Tail(sorted), v)

RECURSIVE SortedByPriceDesc(_)
SortedByPriceDesc(types) ==
    IF types = <<>> THEN <<>>
    ELSE InsertByPriceDesc(SortedByPriceDesc(SubSeq(types, 1, Len(types) - 1)),
                           types[Len(types)])

\* _find_fastest_vm_type_within_budget over the types from position k on:
\* [found, price, vm_type, prediction]; prediction is the value the loop
\* leaves in task.execution_time_prediction.
RECURSIVE find_fastest_vm_type_within_budget(_, _, _, _)
find_fastest_vm_type_within_budget(task, budget, types, k) ==
    LET task_execution_time ==
            predict(predict_func, task, types[k], <<>>,
                    task.container.provision_time, provision_delay)
        price == estimate_price_for_vm_type(task_execution_time, types[k])
    IN  IF price <= budget
        THEN [found |-> TRUE, price |-> price, vm_type |-> types[k],
              prediction |-> task_execution_time]
        ELSE IF k < Len(types)
             THEN find_fastest_vm_type_within_budget(task, budget, types,
                                                     k + 1)
             ELSE [found |-> FALSE, price |-> 0, vm_type |-> types[k],
                   prediction |-> task_execution_time]

\* _distribute_budget: the while loop over the (copied) queue.
RECURSIVE distribute_budget_loop(_, _, _)
distribute_budget_loop(wf, eeoq, budget) ==
    IF budget > 0 /\ eeoq # <<>>
    THEN IF wf.tasks[Head(eeoq)].state \in {"SCHEDULED", "FINISHED"}
         THEN distribute_budget_loop(wf, Tail(eeoq), budget)
         ELSE With(find_fastest_vm_type_within_budget(
                       wf.tasks[Head(eeoq)], budget,
                       SortedByPriceDesc(vm_types), 1),
                   LAMBDA fastest_vm_type :
                       With(IF fastest_vm_type.found
                            THEN fastest_vm_type.price ELSE budget,
                            LAMBDA task_budget :
                                distribute_budget_loop(
                                    [wf EXCEPT !.tasks[Head(eeoq)].budget =
                                                   task_budget],
                                    Tail(eeoq), budget - task_budget)))
    ELSE [wf EXCEPT !.spare_budget = budget]

distribute_budget(wf, budget) == distribute_budget_loop(wf, wf.eeoq, budget)

\* The queues _fill_eeoq can leave for the submitted workflow.
ebpsm_submit_choices(wfin, w) ==
    LET tasks == ebpsm_calculate_efts(Workflow(wfin, w).tasks)
    IN  fill_eeoq(tasks, allocate_levels(tasks), 1)

\* submit_workflow; eeoq is the queue _fill_eeoq built.
ebpsm_submit_workflow(st, wfin, w, eeoq, now) ==
    With(ebpsm_calculate_efts(Workflow(wfin, w).tasks), LAMBDA tasks :
        With(distribute_budget(
                 [Workflow(wfin, w) EXCEPT
                    !.roots = {i \in dag_nodes(tasks) :
                                  tasks[i].parents = {}},
                    !.levels = allocate_levels(tasks),
                    !.tasks = tasks,
                    !.eeoq = eeoq],
                 wfin.budget),
             LAMBDA wf2 :
                 [add_event([st EXCEPT !.workflows = (w :> wf2) @@ @],
                            Event(wf2.submit_time, "SCHEDULE_WORKFLOW", w,
                                  NoTask, NoRef))
                  EXCEPT !.collector.workflows[w].budget = wfin.budget]))

\* The exec_time schedule_task predicts for idle VM v.
ebpsm_exec_time_on(st, task, v) ==
    predict(predict_func, task, st.vms[v].type, <<st.vms[v]>>,
            task.container.provision_time, provision_delay)

\* The reuse loop of schedule_task: the idle VMs it can end with.  It keeps
\* the first VM of minimal exec_time among those within the task's budget.
ebpsm_vm_choices(st, w, t, now) ==
    LET task == st.workflows[w].tasks[t]
        affordable ==
            {v \in get_idle_vms(st, <<>>, <<>>) :
                ~(calculate_cost(st.vms[v],
                                 now + ebpsm_exec_time_on(st, task, v))
                      > task.budget)}
    IN  {v \in affordable :
            \A u \in affordable : ebpsm_exec_time_on(st, task, v)
                                      <= ebpsm_exec_time_on(st, task, u)}

\* schedule_task from "# Schedule task." on, for VM v.
ebpsm_place_task(st, w, t, v, now) ==
    LET task == st.workflows[w].tasks[t]
        fresh == st.vms[v].state = "NOT_PROVISIONED"
    IN  Then(IF fresh THEN provision_vm(st, v, now) ELSE st, LAMBDA st1 :
            LET no_container ==
                    ~check_if_container_provisioned(st1.vms[v],
                                                    task.container)
                vm == IF no_container
                      THEN provision_container(st1.vms[v], task.container)
                      ELSE st1.vms[v]
                total_exec_time ==
                    (IF fresh THEN provision_delay ELSE 0)
                    + (IF no_container THEN task.container.provision_time
                       ELSE 0)
                    + predict(predict_func, task, vm.type, <<vm>>, 0, 0)
            IN  With(total_exec_time, LAMBDA exec_time :
                    Then(reserve_vm(
                             [st1 EXCEPT
                                !.vms[v] = vm,
                                !.workflows[w].tasks[t].execution_price =
                                    calculate_cost(vm, now + exec_time)],
                             v),
                         LAMBDA st3 :
                            [add_event(st3, Event(now + exec_time,
                                                  "FINISH_TASK", NoRef,
                                                  <<w, t>>, v))
                             EXCEPT
                               !.collector.workflows[w].used_vms = @ \cup {v},
                               !.collector.used_vms = @ \cup {v},
                               !.collector.workflows[w].cost =
                                   @ + calculate_price_for_vm(now, exec_time,
                                                              vm)])))

\* schedule_task; pick is the idle VM chosen for reuse (NoRef for None).
ebpsm_schedule_task(st, w, t, pick, now) ==
    IF pick # NoRef THEN ebpsm_place_task(st, w, t, pick, now)
    ELSE With(find_fastest_vm_type_within_budget(
                  st.workflows[w].tasks[t], st.workflows[w].tasks[t].budget,
                  SortedByPriceDesc(vm_types), 1),
              LAMBDA fastest_vmt :
                  ebpsm_place_task(
                      [init_vm(st, IF fastest_vmt.found
                                   THEN fastest_vmt.vm_type
                                   ELSE get_slowest_vm_type(vm_types))
                       EXCEPT
                         !.workflows[w].tasks[t].execution_time_prediction =
                             fastest_vmt.prediction,
                         !.collector.initialized_vms = @ + 1,
                         !.collector.workflows[w].initialized_vms =
                             Append(@, Len(st.vms) + 1)],
                      w, t, Len(st.vms) + 1, now))

ebpsm_finish_task(st, w, t, v, now) ==
    Then(mark_task_finished(st, w, now, t), LAMBDA st1 :
        Then(release_vm(st1, v), LAMBDA st2 :
            LET wf == st2.workflows[w]
                task == wf.tasks[t]
                unscheduled_budget ==
                    SeqSum([i \in 1..Len(wf.unscheduled_tasks) |->
                               wf.tasks[wf.unscheduled_tasks[i]].budget])
                under == task.execution_price < task.budget + wf.spare_budget
                spare_budget == IF under
                                THEN wf.spare_budget + task.budget
                                         - task.execution_price
                                ELSE wf.spare_budget
                debt == task.execution_price
                            - (task.budget + wf.spare_budget)
                budget == IF under THEN unscheduled_budget + spare_budget
                          ELSE unscheduled_budget - debt
            IN  schedule_ready_tasks(
                    [st2 EXCEPT !.workflows[w] =
                        distribute_budget(
                            [wf EXCEPT !.spare_budget = spare_budget],
                            budget)],
                    w, 1, now)))

ebpsm_manage_resources(st, next_event, now) ==
    Then(shutdown_each(st,
                       {v \in get_idle_vms(st, <<>>, <<>>) :
                           idle_time(st.vms[v], now) > idle_vm_threshold},
                       now),
         LAMBDA st1 :
             IF next_event = <<>> THEN st1
             ELSE IF next_event[1].type = "MANAGE_RESOURCES" THEN st1
             ELSE add_event(st1, Event(now + ebpsm_provisioning_interval,
                                       "MANAGE_RESOURCES", NoRef, NoTask,
                                       NoRef)))

(***************************************************************************)
(* schedulers/dyna/scheduler.py                                            *)
(***************************************************************************)
\* ConfigurationPlan.__init__; id stands for the object's identity.  The
\* plan list is not part of the record: every plan of one search refers to
\* the one list start_conf_plan.init_state built (neighbor.plan =
\* configuration_plan.plan), kept as the field plan of the search state.
ConfigurationPlan(id, level) == [id |-> id, level |-> level, f_metric |-> 0]

\* ConfigurationPlan.init_state
init_state(tasks) ==
    [i \in 1..Len(tasks) |-> get_slowest_vm_type(vm_types)]

\* _estimate_cost: <<estimated cost, tasks with estimated_time set>>.
estimate_cost(wf, plan) ==
    LET estimated_time(i) ==
            io_consumption(wf.tasks[i], plan[i], <<>>,
                           wf.container.provision_time, provision_delay)
    IN  << SeqSum([i \in 1..Len(wf.tasks) |->
                      estimate_price_for_vm_type(estimated_time(i), plan[i])]),
           [i \in 1..Len(wf.tasks) |->
               [wf.tasks[i] EXCEPT !.estimated_time = estimated_time(i)]] >>

\* _estimate_performance (None for a workflow without tasks).
estimate_performance(tasks) ==
    IF Len(tasks) = 0 THEN None
    ELSE SetMax({SetMax({tasks[p].estimated_time : p \in tasks[i].parents})
                     + tasks[i].estimated_time : i \in 1..Len(tasks)})

\* _get_configuration_plan_neighbors: one neighbor per faster type, each
\* writing its type into the shared list at position level; the list after
\* all neighbors have been built.
RECURSIVE write_neighbors(_, _, _)
write_neighbors(plan, level, types) ==
    IF types = <<>> THEN plan
    ELSE write_neighbors([plan EXCEPT ![level + 1] = Head(types)], level,
                         Tail(types))

\* "for neighbor in neighbors": sr is the search state, k the neighbor's
\* position; a neighbor is a new object, so it is neither in closed nor in
\* opened.
RECURSIVE push_neighbors(_, _, _, _)
push_neighbors(sr, level, k, count) ==
    IF k > count THEN sr
    ELSE With(estimate_cost(sr.wf, sr.plan), LAMBDA est :
             LET neighbor == ConfigurationPlan(sr.next_id, level + 1)
                 f == est[1] + est[1]
                 opened == IF f >= sr.upper_bound \/ neighbor.id \in sr.closed
                           THEN sr.opened
                           ELSE heappush(sr.opened, neighbor)
             IN  push_neighbors(
                     [sr EXCEPT !.wf.tasks = est[2], !.next_id = @ + 1,
                                !.opened = opened],
                     level, k + 1, count))

\* Mutant: a plan is better only when it beats an upper bound already set.
RECURSIVE on_demand_loop_unset(_, _)
on_demand_loop_unset(sr, now) ==
    IF sr.opened = <<>> \/ ~(sr.current_iter < on_demand_conf_max_iter)
       \/ sr.raised
    THEN sr
    ELSE With(heappop(sr.opened), LAMBDA popped :
         With(estimate_cost(sr.wf, sr.plan), LAMBDA est :
             LET current_plan == popped[1]
                 level == current_plan.level
                 finish_time == now + estimate_performance(sr.wf.tasks)
                 accepted == sr.upper_bound = None
                                 \/ finish_time < sr.wf.deadline
                 f == est[1] + est[1]
                 better == sr.upper_bound # None /\ f < sr.upper_bound
                 sr1 == [sr EXCEPT
                           !.opened = popped[2],
                           !.wf.tasks = IF accepted THEN est[2] ELSE @,
                           !.wf.examined =
                               Append(@, [id |-> current_plan.id,
                                          perf |-> estimate_performance(
                                                       sr.wf.tasks)]),
                           !.wf.best_plan_id =
                               IF accepted /\ better THEN current_plan.id
                               ELSE @,
                           !.upper_bound = IF accepted /\ better THEN f
                                           ELSE @,
                           !.best_plan = IF accepted /\ better
                                         THEN <<current_plan>> ELSE @,
                           !.closed = @ \cup {current_plan.id}]
             IN  IF level + 1 > Len(sr.plan)
                 THEN [sr1 EXCEPT !.raised = TRUE]
                 ELSE With(get_vm_types(vm_types, sr.plan[level + 1]),
                           LAMBDA faster :
                               With(push_neighbors(
                                        [sr1 EXCEPT !.plan =
                                            write_neighbors(@, level, faster)],
                                        level, 1, Len(faster)),
                                    LAMBDA sr3 :
                                        on_demand_loop_unset(
                                            [sr3 EXCEPT !.current_iter = @ + 1],
                                            now)))))

\* The while loop of _on_demand_configuration.
RECURSIVE on_demand_loop(_, _)
on_demand_loop(sr, now) ==
    IF sr.opened = <<>> \/ ~(sr.current_iter < on_demand_conf_max_iter)
       \/ sr.raised
    THEN sr
    ELSE With(heappop(sr.opened), LAMBDA popped :
         With(estimate_cost(sr.wf, sr.plan), LAMBDA est :
             LET current_plan == popped[1]
                 level == current_plan.level
                 finish_time == now + estimate_performance(sr.wf.tasks)
                 accepted == sr.upper_bound = None
                                 \/ finish_time < sr.wf.deadline
                 f == est[1] + est[1]
                 better == sr.upper_bound = None \/ f < sr.upper_bound
                 sr1 == [sr EXCEPT
                           !.opened = popped[2],
                           !.wf.tasks = IF accepted THEN est[2] ELSE @,
                           !.wf.examined =
                               Append(@, [id |-> current_plan.id,
                                          perf |-> estimate_performance(
                                                       sr.wf.tasks)]),
                           !.wf.best_plan_id =
                               IF accepted /\ better THEN current_plan.id
                               ELSE @,
                           !.upper_bound = IF accepted /\ better THEN f
                                           ELSE @,
                           !.best_plan = IF accepted /\ better
                                         THEN <<current_plan>> ELSE @,
                           !.closed = @ \cup {current_plan.id}]
             IN  IF level + 1 > Len(sr.plan)
                 THEN [sr1 EXCEPT !.raised = TRUE]
                 ELSE With(get_vm_types(vm_types, sr.plan[level + 1]),
                           LAMBDA faster :
                               With(push_neighbors(
                                        [sr1 EXCEPT !.plan =
                                            write_neighbors(@, level, faster)],
                                        level, 1, Len(faster)),
                                    LAMBDA sr3 :
                                        on_demand_loop(
                                            [sr3 EXCEPT !.current_iter = @ + 1],
                                            now)))))

\* _on_demand_configuration: the search state when the loop has ended.
on_demand_configuration(wf, now) ==
    With(estimate_cost(wf, init_state(wf.tasks)), LAMBDA est :
        on_demand_loop(
            [wf |-> [wf EXCEPT !.tasks = est[2]],
             plan |-> init_state(wf.tasks),
             opened |-> heappush(<<>>,
                            [ConfigurationPlan(1, 0) EXCEPT
                               !.f_metric = est[1] + est[1]]),
             closed |-> {}, upper_bound |-> None, best_plan |-> <<>>,
             next_id |-> 2, current_iter |-> 0, raised |-> FALSE], now))

dyna_submit_workflow(st, wfin, w, now) ==
    With(on_demand_configuration(Workflow(wfin, w), now), LAMBDA sr :
        LET wf1 == [sr.wf EXCEPT !.configuration_plan =
                       IF sr.best_plan = <<>> THEN <<>> ELSE sr.plan]
            st1 == [st EXCEPT !.workflows = (w :> wf1) @@ @]
        IN  IF sr.raised THEN Raise(st1)
            ELSE add_event(st1, Event(wf1.submit_time, "SCHEDULE_WORKFLOW",
                                      w, NoTask, NoRef)))

\* schedule_task: the idle VMs the search loop can stop at (the first one
\* of the planned type in the set's iteration order).
dyna_vm_choices(st, w, t, now) ==
    LET required_vm_type == st.workflows[w].configuration_plan[t]
    IN  {v \in get_idle_vms(st, <<>>, <<>>) :
            st.vms[v].type = required_vm_type}

\* Mutant: finish_time = current_time - total_exec_time.
dyna_place_task_backwards(st, w, t, v, now) ==
    LET task == st.workflows[w].tasks[t]
        fresh == st.vms[v].state = "NOT_PROVISIONED"
    IN  Then(IF fresh THEN provision_vm(st, v, now) ELSE st, LAMBDA st1 :
            LET total_exec_time ==
                    (IF fresh THEN provision_delay ELSE 0)
                    + task.container.provision_time
                    + io_consumption(task, st1.vms[v].type, <<st1.vms[v]>>,
                                     0, 0)
            IN  Then(reserve_vm(st1, v), LAMBDA st3 :
                    add_event(st3, Event(now - total_exec_time,
                                         "FINISH_TASK", NoRef, <<w, t>>, v))))

\* schedule_task from "# Schedule task." on, for VM v.
dyna_place_task(st, w, t, v, now) ==
    LET task == st.workflows[w].tasks[t]
        fresh == st.vms[v].state = "NOT_PROVISIONED"
    IN  Then(IF fresh THEN provision_vm(st, v, now) ELSE st, LAMBDA st1 :
            LET no_container ==
                    ~check_if_container_provisioned(st1.vms[v],
                                                    task.container)
                vm == IF no_container
                      THEN provision_container(st1.vms[v], task.container)
                      ELSE st1.vms[v]
                total_exec_time ==
                    (IF fresh THEN provision_delay ELSE 0)
                    + (IF no_container THEN task.container.provision_time
                       ELSE 0)
                    + io_consumption(task, vm.type, <<vm>>, 0, 0)
            IN  Then(reserve_vm([st1 EXCEPT !.vms[v] = vm], v), LAMBDA st3 :
                    [add_event(st3, Event(now + total_exec_time,
                                          "FINISH_TASK", NoRef, <<w, t>>, v))
                     EXCEPT !.collector.workflows[w].used_vms = @ \cup {v}]))

\* schedule_task; pick is the idle VM found (NoRef for None).
dyna_schedule_task(st, w, t, pick, now) ==
    IF pick # NoRef THEN dyna_place_task(st, w, t, pick, now)
    ELSE dyna_place_task(
             [init_vm(st, st.workflows[w].configuration_plan[t]) EXCEPT
                !.collector.initialized_vms = @ + 1,
                !.collector.workflows[w].initialized_vms =
                    Append(@, Len(st.vms) + 1)],
             w, t, Len(st.vms) + 1, now)

\* finish_task of DynaNS and Min-MinBUDG: the time until the next billing
\* period is computed for vm, the VM just released, for every idle_vm.
release_and_shutdown_idle(st, w, t, v, now) ==
    Then(mark_task_finished(st, w, now, t), LAMBDA st1 :
        Then(release_vm(st1, v), LAMBDA st2 :
            shutdown_each(
                st2,
                {idle_vm \in get_idle_vms(st2, <<>>, <<>>) :
                    time_until_next_billing_period(now, st2.vms[v])
                        < time_to_shutdown_vm},
                now)))

dyna_finish_task(st, w, t, v, now) ==
    schedule_ready_tasks(release_and_shutdown_idle(st, w, t, v, now),
                         w, 1, now)

\* manage_resources: pass
dyna_manage_resources(st, next_event, now) == st

(***************************************************************************)
(* schedulers/minmin/scheduler.py.  Budgets and the pot are rationals over *)
(* the workflow's makespan.                                                *)
(***************************************************************************)
\* _estimate_makespan: predictions on the average type, and their sum.
estimate_makespan(wf) ==
    LET execution_time(i) ==
            predict(predict_func, wf.tasks[i], get_average_vm_type(vm_types),
                    <<>>, wf.tasks[i].container.provision_time,
                    provision_delay)
    IN  [wf EXCEPT
           !.tasks = [i \in 1..Len(wf.tasks) |->
                         [wf.tasks[i] EXCEPT !.execution_time_prediction =
                                                 execution_time(i)]],
           !.makespan = @ + SeqSum([i \in 1..Len(wf.tasks) |->
                                       execution_time(i)])]

\* _divide_budget: execution_time_prediction / makespan * budget; the
\* division raises ZeroDivisionError for a makespan of 0 (guarded by the
\* caller).
divide_budget(wf) ==
    [wf EXCEPT
       !.pot = Rat(0, wf.makespan),
       !.tasks = [i \in 1..Len(wf.tasks) |->
                     [wf.tasks[i] EXCEPT !.budget =
                         Rat(wf.tasks[i].execution_time_prediction
                                 * wf.budget, wf.makespan)]]]

minmin_submit_workflow(st, wfin, w, now) ==
    With(estimate_makespan(Workflow(wfin, w)), LAMBDA wf1 :
        IF Len(wf1.tasks) > 0 /\ wf1.makespan = 0
        THEN Raise([st EXCEPT !.workflows = (w :> wf1) @@ @])
        ELSE [add_event([st EXCEPT !.workflows =
                                       (w :> divide_budget(wf1)) @@ @],
                        Event(wf1.submit_time, "SCHEDULE_WORKFLOW", w,
                              NoTask, NoRef))
              EXCEPT !.collector.workflows[w].budget = wfin.budget])

\* _get_best_host, first loop: the best VM type, seeded with the slowest
\* one; bh = [vm_type, finish_time, new_pot], pot amounts times den.
RECURSIVE best_type_host(_, _, _, _, _)
best_type_host(task, total_budget, den, k, bh) ==
    IF k > Len(vm_types) THEN bh
    ELSE LET execution_time ==
                 predict(predict_func, task, vm_types[k], <<>>,
                         task.container.provision_time, provision_delay)
             execution_price ==
                 estimate_price_for_vm_type(execution_time, vm_types[k])
         IN  IF execution_time < bh.finish_time
                /\ execution_price * den <= total_budget
             THEN best_type_host(task, total_budget, den, k + 1,
                      [vm_type |-> vm_types[k],
                       finish_time |-> execution_time,
                       new_pot |-> total_budget - execution_price * den])
             ELSE best_type_host(task, total_budget, den, k + 1, bh)

\* The host _get_best_host has after the loop over the VM types.
minmin_type_host(st, w, t) ==
    LET wf == st.workflows[w]
        task == wf.tasks[t]
    IN  best_type_host(task, task.budget.num + wf.pot.num, wf.makespan, 1,
            [vm_type |-> get_slowest_vm_type(vm_types),
             finish_time |->
                 predict(predict_func, task, get_slowest_vm_type(vm_types),
                         <<>>, task.container.provision_time,
                         provision_delay),
             new_pot |-> 0])

minmin_exec_time_on(st, task, v) ==
    predict(predict_func, task, st.vms[v].type, <<st.vms[v]>>,
            task.container.provision_time, provision_delay)

\* _get_best_host, second loop: the idle VMs it can end with -- those that
\* beat the best type within the budget, of minimal execution time; {} when
\* the host stays a VM type.
minmin_vm_choices(st, w, t, now) ==
    With(minmin_type_host(st, w, t), LAMBDA th :
        LET wf == st.workflows[w]
            task == wf.tasks[t]
            total_budget == task.budget.num + wf.pot.num
            better ==
                {v \in get_idle_vms(st, <<>>, <<>>) :
                    /\ minmin_exec_time_on(st, task, v) < th.finish_time
                    /\ calculate_price_for_vm(now,
                           minmin_exec_time_on(st, task, v), st.vms[v])
                           * wf.makespan <= total_budget}
        IN  {v \in better :
                \A u \in better : minmin_exec_time_on(st, task, v)
                                      <= minmin_exec_time_on(st, task, u)})

\* schedule_task after _get_best_host returned VM v, the new pot and the
\* execution time.
minmin_place_task(st, w, t, v, pot, exec_time, now) ==
    LET task == st.workflows[w].tasks[t]
        st0 == [st EXCEPT !.workflows[w].pot = Rat(pot, @.den)]
    IN  Then(IF st.vms[v].state = "NOT_PROVISIONED"
             THEN provision_vm(st0, v, now) ELSE st0, LAMBDA st1 :
            LET vm == IF ~check_if_container_provisioned(st1.vms[v],
                                                         task.container)
                      THEN provision_container(st1.vms[v], task.container)
                      ELSE st1.vms[v]
            IN  Then(reserve_vm([st1 EXCEPT !.vms[v] = vm], v), LAMBDA st3 :
                    [add_event(st3, Event(now + exec_time, "FINISH_TASK",
                                          NoRef, <<w, t>>, v))
                     EXCEPT
                       !.collector.workflows[w].used_vms = @ \cup {v},
                       !.collector.used_vms = @ \cup {v},
                       !.collector.workflows[w].cost =
                           @ + calculate_price_for_vm(now, exec_time, vm)]))

\* schedule_task; pick is the idle VM _get_best_host returned (NoRef when
\* the host is a VM type).
minmin_schedule_task(st, w, t, pick, now) ==
    LET wf == st.workflows[w]
        task == wf.tasks[t]
        total_budget == task.budget.num + wf.pot.num
    IN  IF pick # NoRef
        THEN With(minmin_exec_time_on(st, task, pick), LAMBDA exec_time :
                 minmin_place_task(
                     st, w, t, pick,
                     total_budget
                         - calculate_price_for_vm(now, exec_time,
                                                  st.vms[pick])
                               * wf.makespan,
                     exec_time, now))
        ELSE With(minmin_type_host(st, w, t), LAMBDA th :
                 minmin_place_task(
                     [init_vm(st, th.vm_type) EXCEPT
                        !.collector.initialized_vms = @ + 1,
                        !.collector.workflows[w].initialized_vms =
                            Append(@, Len(st.vms) + 1)],
                     w, t, Len(st.vms) + 1, th.new_pot, th.finish_time, now))

minmin_finish_task(st, w, t, v, now) ==
    schedule_ready_tasks(release_and_shutdown_idle(st, w, t, v, now),
                         w, 1, now)

\* manage_resources: pass
minmin_manage_resources(st, next_event, now) == st

(***************************************************************************)
(* The workload: what the driver (simulation.py) parses and submits.       *)
(***************************************************************************)
\* DAGs: the parents of each task, parents listed before children.
Shapes ==
    { <<{}>>, <<{}, {1}>>, <<{}, {1}, {1}>>, <<{}, {}, {1, 2}>>,
      <<{}, {}, {}, {}>>, <<{}, {1}, {2}, {1}>>, <<{}, {}, {1}, {2, 3}>> }

RestShapes == { <<{}>>, <<{}, {1}>> }

\* Task profiles: "cpu" one hour of runtime and no files; "root0" the same
\* with instantaneous entry tasks; "zero" no runtime and no files; "io" a
\* minute of runtime, one input and one output file of 125000 KB and a
\* container that takes 30 s to provision.
Profiles == {"cpu", "root0", "zero", "io"}

\* <<workflow.deadline, workflow.budget>>: each scheduler reads one of them.
Constraints == { <<3000, 1>>, <<8000, 20>> }

\* <<workflow.submit_time, time passed to Simulator.submit_workflow>>
SubmitTimes == { <<0, 0>>, <<0, 60>>, <<60, 0>> }

RestSubmitTimes == { <<0, 0>>, <<60, 60>> }

TaskInput(shape, profile, i) ==
    [name |-> i, parents |-> shape[i],
     input_files |-> IF profile = "io" THEN <<File("in", 125000)>> ELSE <<>>,
     output_files |-> IF profile = "io" THEN <<File("out", 125000)>> ELSE <<>>,
     runtime |-> CASE profile = "cpu" -> 3600
                   [] profile = "root0" -> IF shape[i] = {} THEN 0 ELSE 3600
                   [] profile = "zero" -> 0
                   [] OTHER -> 60]

WorkflowInput(uuid, shape, profile, constraint, times) ==
    [tasks |-> [i \in 1..Len(shape) |-> TaskInput(shape, profile, i)],
     container |-> Container(uuid, IF profile = "io" THEN 30 ELSE 0),
     deadline |-> constraint[1], budget |-> constraint[2],
     submit_time |-> times[1], time |-> times[2]]

FirstMenu ==
    { WorkflowInput(1, sh, pr, c, tm) :
        sh \in Shapes, pr \in Profiles, c \in Constraints,
        tm \in SubmitTimes }

\* The second workflow arrives with the first or after it, any later one
\* after it.
RestMenu(uuid) ==
    { WorkflowInput(uuid, sh, "cpu", <<8000, 20>>, tm) :
        sh \in RestShapes,
        tm \in IF uuid = 2 THEN RestSubmitTimes ELSE {<<60, 60>>} }

RECURSIVE Workloads(_)
Workloads(n) ==
    IF n = 1 THEN { <<wf>> : wf \in FirstMenu }
    ELSE { Append(wl, wf) : wl \in Workloads(n - 1), wf \in RestMenu(n) }

Schedulers == {"EPSM", "EBPSM", "DynaNS", "Min-MinBUDG"}

PredictFunctions == {"io_consumption", "io_and_runtime"}

ProvisionDelays == {0, 100}

\* No unit driver has called anything: the value of call in every run of
\* the simulator.
NoCall == [op |-> "none", vm |-> NoRef, from |-> "NONE", idle |-> {},
           raised |-> FALSE, time |-> 0, use_time |-> 0, result |-> 0]

\* No event dispatched yet.
NoEvent == [start_time |-> 0, type |-> "NONE", workflow |-> NoRef,
            task |-> NoTask, vm |-> NoRef, seq |-> 0]

Init ==
    /\ scheduler \in Schedulers
    /\ predict_func \in PredictFunctions
    /\ provision_delay \in ProvisionDelays
    /\ vm_types = get_vm_types_from_json
    /\ workload \in UNION {Workloads(n) : n \in 1..MaxWorkflows}
    /\ submitted = 0
    /\ event_queue = <<>>
    /\ next_seq = 0
    /\ last_event = NoEvent
    /\ current_time = 0
    /\ workflows = <<>>
    /\ vms = <<>>
    /\ idle_vms = {}
    /\ collector = MetricCollector(Len(workload))
    /\ pc = "setup"
    /\ call = NoCall

\* The mutable objects, as the record the handlers work on.
St ==
    [event_queue |-> event_queue, next_seq |-> next_seq,
     workflows |-> workflows, vms |-> vms, idle_vms |-> idle_vms,
     collector |-> collector, raised |-> FALSE]

\* The objects after a handler returned st (or raised out of the loop).
Apply(st) ==
    /\ event_queue' = st.event_queue
    /\ next_seq' = st.next_seq
    /\ workflows' = st.workflows
    /\ vms' = st.vms
    /\ idle_vms' = st.idle_vms
    /\ collector' = st.collector
    /\ pc' = IF st.raised THEN "raised" ELSE pc

\* Simulator.submit_workflow(workflow, time), called by the driver for each
\* workflow of the workload before run_simulation.
Simulator_submit_workflow ==
    /\ pc = "setup"
    /\ submitted < Len(workload)
    /\ submitted' = submitted + 1
    /\ Apply(add_event(St, Event(workload[submitted + 1].time,
                                 "SUBMIT_WORKFLOW", submitted + 1, NoTask,
                                 NoRef)))
    /\ UNCHANGED << scheduler, predict_func, provision_delay, vm_types,
                    workload, last_event, current_time, call >>

\* Simulator.run_simulation: enter EventLoop.run.
run_simulation ==
    /\ pc = "setup"
    /\ submitted = Len(workload)
    /\ pc' = "running"
    /\ UNCHANGED << scheduler, predict_func, provision_delay, vm_types,
                    workload, submitted, event_queue, next_seq, last_event,
                    current_time, workflows, vms, idle_vms, collector,
                    call >>

(***************************************************************************)
(* SchedulerInterface: the scheduler the driver instantiated.              *)
(***************************************************************************)
\* What submit_workflow leaves to a set's iteration order (the EBPSM queue).
scheduler_submit_choices(wfin, w) ==
    IF scheduler = "EBPSM" THEN ebpsm_submit_choices(wfin, w) ELSE { <<>> }

scheduler_submit_workflow(st, wfin, w, choice, now) ==
    CASE scheduler = "EPSM" -> epsm_submit_workflow(st, wfin, w, now)
      [] scheduler = "EBPSM" -> ebpsm_submit_workflow(st, wfin, w, choice, now)
      [] scheduler = "DynaNS" -> dyna_submit_workflow(st, wfin, w, now)
      [] scheduler = "Min-MinBUDG" -> minmin_submit_workflow(st, wfin, w, now)

\* The VMs schedule_task may pick where a set's iteration order decides.
scheduler_vm_choices(st, w, t, now) ==
    CASE scheduler = "EPSM" -> epsm_vm_choices(st, w, t, now)
      [] scheduler = "EBPSM" -> ebpsm_vm_choices(st, w, t, now)
      [] scheduler = "DynaNS" -> dyna_vm_choices(st, w, t, now)
      [] scheduler = "Min-MinBUDG" -> minmin_vm_choices(st, w, t, now)

scheduler_schedule_task(st, w, t, pick, now) ==
    CASE scheduler = "EPSM" -> epsm_schedule_task(st, w, t, pick, now)
      [] scheduler = "EBPSM" -> ebpsm_schedule_task(st, w, t, pick, now)
      [] scheduler = "DynaNS" -> dyna_schedule_task(st, w, t, pick, now)
      [] scheduler = "Min-MinBUDG" ->
             minmin_schedule_task(st, w, t, pick, now)

scheduler_finish_task(st, w, t, v, now) ==
    CASE scheduler = "EPSM" -> epsm_finish_task(st, w, t, v, now)
      [] scheduler = "EBPSM" -> ebpsm_finish_task(st, w, t, v, now)
      [] scheduler = "DynaNS" -> dyna_finish_task(st, w, t, v, now)
      [] scheduler = "Min-MinBUDG" -> minmin_finish_task(st, w, t, v, now)

scheduler_manage_resources(st, next_event, now) ==
    CASE scheduler = "EPSM" -> epsm_manage_resources(st, next_event, now)
      [] scheduler = "EBPSM" -> ebpsm_manage_resources(st, next_event, now)
      [] scheduler = "DynaNS" -> dyna_manage_resources(st, next_event, now)
      [] scheduler = "Min-MinBUDG" ->
             minmin_manage_resources(st, next_event, now)

(***************************************************************************)
(* EventLoop.run: one action per event type, each the whole iteration of   *)
(* the while loop (pop, current_time, collector.start_time, the handler).  *)
(***************************************************************************)
NextEvent == heappop(event_queue)[1]

\* The state after "event = heappop(...)" and the collector.start_time
\* assignment.
Popped ==
    [St EXCEPT !.event_queue = heappop(event_queue)[2],
               !.collector.start_time =
                   IF @ = None THEN NextEvent.start_time ELSE @]

Dispatching(type) ==
    /\ pc = "running"
    /\ event_queue # <<>>
    /\ NextEvent.type = type
    /\ current_time' = NextEvent.start_time
    /\ last_event' = NextEvent
    /\ UNCHANGED << scheduler, predict_func, provision_delay, vm_types,
                    workload, submitted, call >>

\* The collector updates of the SUBMIT_WORKFLOW branch after submit_workflow
\* returned st.
SubmitWorkflowDone(st, w, now) ==
    Apply(IF st.raised THEN st
          ELSE [st EXCEPT !.collector.workflows[w].start_time = now,
                          !.collector.workflows_total_tasks =
                              @ + Len(workload[w].tasks)])

DispatchSubmitWorkflow ==
    /\ Dispatching("SUBMIT_WORKFLOW")
    /\ \E choice \in scheduler_submit_choices(
                          workload[NextEvent.workflow], NextEvent.workflow) :
           SubmitWorkflowDone(
               scheduler_submit_workflow(
                   Popped, workload[NextEvent.workflow], NextEvent.workflow,
                   choice, NextEvent.start_time),
               NextEvent.workflow, NextEvent.start_time)

DispatchScheduleWorkflow ==
    /\ Dispatching("SCHEDULE_WORKFLOW")
    /\ Apply(schedule_workflow(Popped, NextEvent.workflow,
                               NextEvent.start_time))

\* schedule_task with each VM the scheduler's search can return.
ScheduleTaskWith(choices, st0, w, t, now) ==
    \E pick \in (IF choices = {} THEN {NoRef} ELSE choices) :
        Apply(scheduler_schedule_task(st0, w, t, pick, now))

DispatchScheduleTask ==
    /\ Dispatching("SCHEDULE_TASK")
    /\ ScheduleTaskWith(
           scheduler_vm_choices(Popped, NextEvent.task[1], NextEvent.task[2],
                                NextEvent.start_time),
           [Popped EXCEPT !.collector.scheduled_tasks = @ + 1],
           NextEvent.task[1], NextEvent.task[2], NextEvent.start_time)

\* The collector update of the FINISH_TASK branch after finish_task
\* returned st.
FinishTaskDone(st, w, now) ==
    Apply(IF st.raised THEN st
          ELSE [st EXCEPT !.collector.workflows[w].finish_time = now])

\* Mutant: collector.finished_tasks is not incremented.
DispatchFinishTask_uncounted ==
    /\ Dispatching("FINISH_TASK")
    /\ FinishTaskDone(
           scheduler_finish_task(Popped, NextEvent.task[1], NextEvent.task[2],
                                 NextEvent.vm, NextEvent.start_time),
           NextEvent.task[1], NextEvent.start_time)

DispatchFinishTask ==
    /\ Dispatching("FINISH_TASK")
    /\ FinishTaskDone(
           scheduler_finish_task(
               [Popped EXCEPT !.collector.finished_tasks = @ + 1],
               NextEvent.task[1], NextEvent.task[2], NextEvent.vm,
               NextEvent.start_time),
           NextEvent.task[1], NextEvent.start_time)

DispatchManageResources ==
    /\ Dispatching("MANAGE_RESOURCES")
    /\ Apply(scheduler_manage_resources(
                 Popped, peek_closest_event(heappop(event_queue)[2]),
                 NextEvent.start_time))

\* The objects after shutdown_vms returned st, and where the loop ends.
LoopExited(st) ==
    /\ event_queue' = st.event_queue
    /\ next_seq' = st.next_seq
    /\ workflows' = st.workflows
    /\ vms' = st.vms
    /\ idle_vms' = st.idle_vms
    /\ collector' = IF st.raised THEN st.collector
                    ELSE [st.collector EXCEPT !.finish_time = current_time]
    /\ pc' = IF st.raised THEN "raised" ELSE "finished"

\* The queue is empty: shutdown_vms(time=current_time), collector.finish_time.
LoopExit ==
    /\ pc = "running"
    /\ event_queue = <<>>
    /\ LoopExited(shutdown_vms(St, current_time))
    /\ UNCHANGED << scheduler, predict_func, provision_delay, vm_types,
                    workload, submitted, last_event, current_time, call >>

Next ==
    \/ Simulator_submit_workflow
    \/ run_simulation
    \/ DispatchSubmitWorkflow
    \/ DispatchScheduleWorkflow
    \/ DispatchScheduleTask
    \/ DispatchFinishTask
    \/ DispatchManageResources
    \/ LoopExit

Spec == Init /\ [][Next]_vars

(***************************************************************************)
(* The simulator run on the scenarios of the specification: S1 (EPSM, one  *)
(* task of an hour, deadline two hours after submission) and S4 (DynaNS,   *)
(* three tasks, a generous deadline, a catalog of three types).            *)
(***************************************************************************)
CatalogS4 ==
    << [name |-> "slow", cpu |-> 1, memory |-> 1, price |-> 1,
        billing_period |-> 3600, io_bandwidth |-> 100, scale |-> 1],
       [name |-> "mid", cpu |-> 2, memory |-> 2, price |-> 2,
        billing_period |-> 3600, io_bandwidth |-> 100, scale |-> 1],
       [name |-> "fast", cpu |-> 4, memory |-> 4, price |-> 4,
        billing_period |-> 3600, io_bandwidth |-> 100, scale |-> 1] >>

\* The DAGs of three tasks.
ShapesS4 ==
    { <<{}, {}, {}>>, <<{}, {1}, {1}>>, <<{}, {1}, {2}>>, <<{}, {}, {1, 2}>> }

\* [scheduler, predict_func, provision_delay, vm_types, workload]
ScenariosS1 ==
    { [scheduler |-> "EPSM", predict_func |-> "io_and_runtime",
       provision_delay |-> 0, vm_types |-> SortedByPrice(Catalog),
       workload |-> << WorkflowInput(1, <<{}>>, "cpu", <<t + 7200, 20>>,
                                     <<t, t>>) >>] : t \in {0, 60} }

ScenariosS4 ==
    { [scheduler |-> "DynaNS", predict_func |-> pf, provision_delay |-> d,
       vm_types |-> SortedByPrice(CatalogS4),
       workload |-> << WorkflowInput(1, sh, pr, <<40000, 20>>, <<0, 0>>) >>] :
         pf \in PredictFunctions, d \in ProvisionDelays, sh \in ShapesS4,
         pr \in Profiles }

ScenarioInit ==
    /\ \E sc \in ScenariosS1 \cup ScenariosS4 :
           /\ scheduler = sc.scheduler
           /\ predict_func = sc.predict_func
           /\ provision_delay = sc.provision_delay
           /\ vm_types = sc.vm_types
           /\ workload = sc.workload
    /\ submitted = 0
    /\ event_queue = <<>>
    /\ next_seq = 0
    /\ last_event = NoEvent
    /\ current_time = 0
    /\ workflows = <<>>
    /\ vms = <<>>
    /\ idle_vms = {}
    /\ collector = MetricCollector(Len(workload))
    /\ pc = "setup"
    /\ call = NoCall

ScenarioSpec == ScenarioInit /\ [][Next]_vars

(***************************************************************************)
(* VMManager called directly: any method on any VM in any order, at the    *)
(* times below.  An exception of a call is caught by the caller and        *)
(* recorded in call.raised; the manager's objects stay as the call left    *)
(* them.                                                                   *)
(***************************************************************************)
MaxVms == 2

\* The times VMs are provisioned at, and the times of the other calls.
StartTimes == {0}

CallTimes == {0, 3601}

\* The variables no direct call touches.
DirectCallFrame ==
    UNCHANGED << scheduler, predict_func, provision_delay, vm_types,
                 workload, submitted, event_queue, next_seq, last_event,
                 current_time, workflows, pc >>

\* The manager's objects after the call op(vm, time) returned or raised st.
ManagerCalled(op, v, time, st) ==
    /\ vms' = st.vms
    /\ idle_vms' = st.idle_vms
    /\ collector' = st.collector
    /\ call' = [NoCall EXCEPT !.op = op, !.vm = v,
                              !.from = IF v = NoRef THEN "NONE"
                                       ELSE vms[v].state,
                              !.idle = idle_vms, !.raised = st.raised,
                              !.time = time]
    /\ DirectCallFrame

ManagerInit ==
    /\ scheduler = "EPSM"
    /\ predict_func = "io_consumption"
    /\ provision_delay = 0
    /\ vm_types = get_vm_types_from_json
    /\ workload = <<>>
    /\ submitted = 0
    /\ event_queue = <<>>
    /\ next_seq = 0
    /\ last_event = NoEvent
    /\ current_time = 0
    /\ workflows = <<>>
    /\ vms = <<>>
    /\ idle_vms = {}
    /\ collector = MetricCollector(0)
    /\ pc = "manager"
    /\ call = NoCall

Call_init_vm ==
    /\ pc = "manager"
    /\ Len(vms) < MaxVms
    /\ \E k \in DOMAIN vm_types :
           ManagerCalled("init_vm", NoRef, 0, init_vm(St, vm_types[k]))

Call_provision_vm ==
    /\ pc = "manager"
    /\ \E v \in DOMAIN vms, time \in StartTimes :
           ManagerCalled("provision_vm", v, time, provision_vm(St, v, time))

Call_reserve_vm ==
    /\ pc = "manager"
    /\ \E v \in DOMAIN vms :
           ManagerCalled("reserve_vm", v, 0, reserve_vm(St, v))

Call_release_vm ==
    /\ pc = "manager"
    /\ \E v \in DOMAIN vms :
           ManagerCalled("release_vm", v, 0, release_vm(St, v))

Call_shutdown_vm ==
    /\ pc = "manager"
    /\ \E v \in DOMAIN vms, time \in CallTimes :
           ManagerCalled("shutdown_vm", v, time, shutdown_vm(St, time, v))

Call_shutdown_vms ==
    /\ pc = "manager"
    /\ \E time \in CallTimes :
           ManagerCalled("shutdown_vms", NoRef, time, shutdown_vms(St, time))

ManagerNext ==
    \/ Call_init_vm
    \/ Call_provision_vm
    \/ Call_reserve_vm
    \/ Call_release_vm
    \/ Call_shutdown_vm
    \/ Call_shutdown_vms

ManagerSpec == ManagerInit /\ [][ManagerNext]_vars

(***************************************************************************)
(* The cost functions called directly: VM.calculate_cost(time) and         *)
(* calculate_price_for_vm(current_time, use_time, vm) on one VM of either  *)
(* catalog type, provisioned at one of VmStartTimes and either still       *)
(* running or shut down at one of QueryTimes, for the arguments below.     *)
(***************************************************************************)
VmStartTimes == {0, 1800}

QueryTimes == {0, 1800, 3600, 3601, 5400, 7200, 7201}

UseTimes == {0, 1, 1800, 3600, 3601, 7200, 7201, 9000}

CostInit ==
    /\ scheduler = "EPSM"
    /\ predict_func = "io_consumption"
    /\ provision_delay = 0
    /\ vm_types = get_vm_types_from_json
    /\ workload = <<>>
    /\ submitted = 0
    /\ event_queue = <<>>
    /\ next_seq = 0
    /\ last_event = NoEvent
    /\ current_time = 0
    /\ workflows = <<>>
    /\ \E k \in DOMAIN vm_types, s \in VmStartTimes :
           \/ vms = <<provision(VM(vm_types[k]), s)>>
           \/ \E f \in QueryTimes :
                  /\ f >= s
                  /\ vms = <<shutdown(provision(VM(vm_types[k]), s), f)>>
    /\ idle_vms = {}
    /\ collector = MetricCollector(0)
    /\ pc = "cost"
    /\ call = NoCall

\* vm.calculate_cost(time), with time=None (the default) once the VM has a
\* finish time.
Call_calculate_cost ==
    /\ pc = "cost"
    /\ \E time \in QueryTimes \cup {None} :
           /\ time = None => vms[1].state = "SHUTDOWN"
           /\ call' = [NoCall EXCEPT !.op = "calculate_cost", !.vm = 1,
                                     !.time = time,
                                     !.result = calculate_cost(vms[1], time)]
    /\ UNCHANGED << vms, idle_vms, collector >>
    /\ DirectCallFrame

Call_calculate_price_for_vm ==
    /\ pc = "cost"
    /\ \E now \in QueryTimes, use_time \in UseTimes :
           call' = [NoCall EXCEPT !.op = "calculate_price_for_vm", !.vm = 1,
                                  !.time = now, !.use_time = use_time,
                                  !.result = calculate_price_for_vm(
                                                 now, use_time, vms[1])]
    /\ UNCHANGED << vms, idle_vms, collector >>
    /\ DirectCallFrame

CostNext ==
    \/ Call_calculate_cost
    \/ Call_calculate_price_for_vm

CostSpec == CostInit /\ [][CostNext]_vars

(***************************************************************************)
(* The queries called directly: VMManager.get_idle_vms(task, container)    *)
(* and the two prediction functions, on a manager holding two provisioned  *)
(* VMs.  Each VM holds a subset of QueryFiles and of QueryContainers, as   *)
(* finished tasks left them, and is idle or reserved.                      *)
(***************************************************************************)
QueryFiles == {File("in", 125000), File("out", 125000)}

QueryContainers == {Container(1, 30)}

\* The input_files lists of the tasks the queries are made for.
QueryInputs ==
    { <<>>, <<File("in", 125000)>>, <<File("out", 125000)>>,
      <<File("in", 125000), File("out", 125000)>> }

QueryTask(inputs) ==
    Task(1, 1, 1, {}, inputs, <<>>, 60, Container(1, 30))

\* A VM of the given type that ran tasks since time 0 and now holds files
\* and containers.
QueryVM(vm_type, files, containers) ==
    [provision(VM(vm_type), 0) EXCEPT !.files = files,
                                      !.containers = containers]

QueryInit ==
    /\ scheduler = "EPSM"
    /\ predict_func \in PredictFunctions
    /\ provision_delay = 100
    /\ vm_types = get_vm_types_from_json
    /\ workload = <<>>
    /\ submitted = 0
    /\ event_queue = <<>>
    /\ next_seq = 0
    /\ last_event = NoEvent
    /\ current_time = 0
    /\ workflows = <<>>
    /\ \E f1 \in SUBSET QueryFiles, f2 \in SUBSET QueryFiles,
          c1 \in SUBSET QueryContainers, c2 \in SUBSET QueryContainers :
           vms = << QueryVM(vm_types[1], f1, c1),
                    QueryVM(vm_types[2], f2, c2) >>
    /\ idle_vms \in SUBSET {1, 2}
    /\ collector = MetricCollector(0)
    /\ pc = "query"
    /\ call = NoCall

\* vm_manager.get_idle_vms(task=..., container=...); <<>> is None.
Call_get_idle_vms ==
    /\ pc = "query"
    /\ \E taskopt \in {<<>>} \cup { <<QueryTask(i)>> : i \in QueryInputs },
          contopt \in {<<>>} \cup { <<c>> : c \in QueryContainers } :
           call' = [op |-> "get_idle_vms", task |-> taskopt,
                    container |-> contopt,
                    result |-> get_idle_vms(St, taskopt, contopt)]
    /\ UNCHANGED << vms, idle_vms, collector >>
    /\ DirectCallFrame

\* predict_func(task, vm_type, storage, vm, container_prov, vm_prov), as
\* the schedulers call it: vm is None (<<>>) or an idle VM of any type.
Call_predict ==
    /\ pc = "query"
    /\ \E i \in QueryInputs, k \in DOMAIN vm_types,
          vmopt \in {<<>>} \cup { <<v>> : v \in idle_vms } :
           call' = [op |-> "predict", task |-> <<QueryTask(i)>>,
                    vm_type |-> k, vm |-> vmopt,
                    result |-> predict(
                        predict_func, QueryTask(i), vm_types[k],
                        IF vmopt = <<>> THEN <<>> ELSE <<vms[vmopt[1]]>>,
                        30, provision_delay)]
    /\ UNCHANGED << vms, idle_vms, collector >>
    /\ DirectCallFrame

QueryNext ==
    \/ Call_get_idle_vms
    \/ Call_predict

QuerySpec == QueryInit /\ [][QueryNext]_vars

(***************************************************************************)
(* Python floats (IEEE 754 binary64, round to nearest, ties to even) for   *)
(* the prices set_billing_period computes.  A positive float is            *)
(* [m |-> digits, e |-> exponent]: digits are the Precision significant    *)
(* bits as seven base-256 digits, and the value is digits * 2^e.  Only     *)
(* positive normal values occur.                                           *)
(***************************************************************************)
Precision == 52 + 1

\* Digits are base 256, most significant first.
Base == 2^8

Zeros(k) == [i \in 1..k |-> 0]

\* The digits of a natural number, without leading zeros.
RECURSIVE Digits(_)
Digits(n) == IF n = 0 THEN <<>> ELSE Append(Digits(n \div Base), n % Base)

RECURSIVE Strip(_)
Strip(d) == IF d # <<>> /\ d[1] = 0 THEN Strip(Tail(d)) ELSE d

\* The number of bits of a digit sequence starting with a nonzero digit.
BitLen(d) ==
    8 * (Len(d) - 1) + CHOOSE k \in 1..8 : 2^(k - 1) <= d[1] /\ d[1] < 2^k

\* d + 1, one digit longer when every digit was Base - 1.
RECURSIVE Inc(_)
Inc(d) ==
    IF d = <<>> THEN <<1>>
    ELSE IF d[Len(d)] < Base - 1 THEN [d EXCEPT ![Len(d)] = @ + 1]
    ELSE Append(Inc(SubSeq(d, 1, Len(d) - 1)), 0)

\* d * n + carry, for an int 1 <= n < 2^22.
RECURSIVE MulSmall(_, _, _)
MulSmall(d, n, carry) ==
    IF d = <<>> THEN Digits(carry)
    ELSE Append(MulSmall(SubSeq(d, 1, Len(d) - 1), n,
                         (d[Len(d)] * n + carry) \div Base),
                (d[Len(d)] * n + carry) % Base)

\* Long division of d by an int 1 <= n < 2^22 from digit i on: acc.q the
\* quotient digits so far, acc.r the remainder.
RECURSIVE DivSmall(_, _, _, _)
DivSmall(d, n, i, acc) ==
    IF i > Len(d) THEN acc
    ELSE DivSmall(d, n, i + 1,
                  [q |-> Append(acc.q, (acc.r * Base + d[i]) \div n),
                   r |-> (acc.r * Base + d[i]) % n])

\* floor(d / 2^s) for 0 <= s < 8 * Len(d), as Len(d) - s \div 8 digits.
ShiftRight(d, s) ==
    LET k == s \div 8
        t == s % 8
    IN  [i \in 1..(Len(d) - k) |->
            d[i] \div 2^t
            + IF i > 1 THEN (d[i - 1] % 2^t) * 2^(8 - t) ELSE 0]

\* Bit j (0 the least significant) of d, and whether any bit below j is 1.
BitAt(d, j) == (d[Len(d) - j \div 8] \div 2^(j % 8)) % 2

AnyBelow(d, j) ==
    \/ d[Len(d) - j \div 8] % 2^(j % 8) # 0
    \/ \E i \in (Len(d) - j \div 8 + 1)..Len(d) : d[i] # 0

\* The float nearest to d * 2^e (+ a nonzero amount below the last bit
\* when rest), for d starting with a nonzero digit and longer than
\* Precision bits when rest: round to nearest, ties to even.
Round(d, e, rest) ==
    LET s == BitLen(d) - Precision
        kept == Strip(ShiftRight(d, s))
        guard == s > 0 /\ BitAt(d, s - 1) = 1
        sticky == rest \/ (s > 1 /\ AnyBelow(d, s - 1))
        up == guard /\ (sticky \/ kept[Len(kept)] % 2 = 1)
        m == IF up THEN Inc(kept) ELSE kept
    IN  IF BitLen(m) > Precision
        THEN [m |-> ShiftRight(m, 1), e |-> e + s + 1]
        ELSE [m |-> m, e |-> e + s]

\* float(n) for an integer 1 <= n < 2^31 (exact).
FromInt(n) == Round(Digits(n) \o Zeros(7), 0 - 56, FALSE)

\* The next float above x.
Succ(x) == Round(Inc(x.m), x.e, FALSE)

\* x * n for a float x and an int 1 <= n < 2^22.
fmul_int(x, n) == Round(MulSmall(x.m, n, 0), x.e, FALSE)

\* x / n for a float x and an int 1 <= n < 2^22: the quotient is
\* developed 40 bits past the last bit of x, enough for a guard bit.
fdiv_int(x, n) ==
    With(DivSmall(x.m \o Zeros(5), n, 1, [q |-> <<>>, r |-> 0]), LAMBDA q :
        Round(Strip(q.q), x.e - 40, q.r # 0))

(***************************************************************************)
(* VMManager.set_billing_period (vms/manager.py) on a catalog whose prices *)
(* are floats.  period = None leaves the catalog alone.                    *)
(***************************************************************************)
\* set_billing_period with vm_type.billing_period assigned before the new
\* price is computed from it.
set_billing_period_period_first(types, period) ==
    IF period = None THEN types
    ELSE [k \in DOMAIN types |->
             [types[k] EXCEPT !.price = fdiv_int(fmul_int(@, period), period),
                              !.billing_period = period]]

set_billing_period(types, period) ==
    IF period = None THEN types
    ELSE [k \in DOMAIN types |->
             [types[k] EXCEPT
                 !.price = fdiv_int(fmul_int(@, period),
                                    types[k].billing_period),
                 !.billing_period = period]]

\* The billing periods catalogs are written with and rescaled to.
BillingPeriods == {31, 57, 60, 3600}

\* The catalog with its prices as floats, each type with a billing period
\* of its own.
BillingCatalogs ==
    { << [get_vm_types_from_json[1] EXCEPT !.price = FromInt(@),
                                           !.billing_period = b1],
         [get_vm_types_from_json[2] EXCEPT !.price = FromInt(@),
                                           !.billing_period = b2] >> :
        b1 \in {60, 3600}, b2 \in {60, 3600} }

BillingInit ==
    /\ scheduler \in Schedulers
    /\ predict_func = "io_consumption"
    /\ provision_delay = 0
    /\ vm_types \in BillingCatalogs
    /\ workload = <<>>
    /\ submitted = 0
    /\ event_queue = <<>>
    /\ next_seq = 0
    /\ last_event = NoEvent
    /\ current_time = 0
    /\ workflows = <<>>
    /\ vms = <<>>
    /\ idle_vms = {}
    /\ collector = MetricCollector(0)
    /\ pc = "billing"
    /\ call = NoCall

\* scheduler.set_billing_period(period), before any VM is provisioned; the
\* manager's billing_period after the call is recorded in call.result.
Call_set_billing_period ==
    /\ pc = "billing"
    /\ \E period \in BillingPeriods \cup {None} :
           /\ vm_types' = set_billing_period(vm_types, period)
           /\ call' = [op |-> "set_billing_period", period |-> period,
                       before |-> vm_types,
                       result |-> IF period = None
                                  THEN IF call.op = "set_billing_period"
                                       THEN call.result ELSE None
                                  ELSE period]
    /\ UNCHANGED << scheduler, predict_func, provision_delay, workload,
                    submitted, event_queue, next_seq, last_event,
                    current_time, workflows, vms, idle_vms, collector, pc >>

BillingNext == Call_set_billing_period

BillingSpec == BillingInit /\ [][BillingNext]_vars

(***************************************************************************)
(* MetricCollector.parse_constraints, called by the driver after           *)
(* run_simulation returned.  The result is the collector with each         *)
(* workflow's constraint_met and constraint_overflow filled in and the     *)
(* field error naming the exception that left the call ("" for none).      *)
(***************************************************************************)
parse_stats(stats) ==
    IF stats.deadline = None /\ stats.budget = None
    THEN [stats |-> stats, error |-> "AssertionError"]
    ELSE IF stats.deadline # None
    THEN IF stats.finish_time = None
         THEN [stats |-> stats, error |-> "TypeError"]
         ELSE IF stats.finish_time <= stats.deadline
         THEN [stats |-> stats @@ [constraint_met |-> TRUE,
                                   constraint_overflow |-> Rat(0, 1)],
               error |-> ""]
         ELSE IF stats.start_time = None
         THEN [stats |-> stats @@ [constraint_met |-> FALSE],
               error |-> "TypeError"]
         ELSE IF stats.deadline = stats.start_time
         THEN [stats |-> stats @@ [constraint_met |-> FALSE],
               error |-> "ZeroDivisionError"]
         ELSE [stats |-> stats @@ [constraint_met |-> FALSE,
                                   constraint_overflow |->
                                       Rat(stats.finish_time - stats.deadline,
                                           stats.deadline - stats.start_time)],
               error |-> ""]
    ELSE IF stats.cost <= stats.budget
    THEN [stats |-> stats @@ [constraint_met |-> TRUE,
                              constraint_overflow |-> Rat(0, 1)],
          error |-> ""]
    ELSE IF stats.budget = 0
    THEN [stats |-> stats @@ [constraint_met |-> FALSE],
          error |-> "ZeroDivisionError"]
    ELSE [stats |-> stats @@ [constraint_met |-> FALSE,
                              constraint_overflow |->
                                  Rat(stats.cost - stats.budget,
                                      stats.budget)],
          error |-> ""]

\* The loop over self.workflows from the w-th entry on, c being the
\* collector so far (constraints_met counted in c.constraints_met).
RECURSIVE parse_constraints_loop(_, _)
parse_constraints_loop(c, w) ==
    IF w > Len(c.workflows) THEN c
    ELSE With(parse_stats(c.workflows[w]), LAMBDA r :
             IF r.error # ""
             THEN [c EXCEPT !.workflows[w] = r.stats, !.error = r.error]
             ELSE parse_constraints_loop(
                      [c EXCEPT !.workflows[w] = r.stats,
                                !.constraints_met =
                                    @ + BoolTimes(r.stats.constraint_met, 1)],
                      w + 1))

parse_constraints(c) ==
    parse_constraints_loop(c @@ [constraints_met |-> 0, error |-> ""], 1)

(***************************************************************************)
(* Properties.                                                             *)
(***************************************************************************)
(***************************************************************************)
(* The simulator under EPSM with the program running on: the driver        *)
(* submits its workflows and calls run_simulation, and EventLoop.run keeps *)
(* dispatching while its queue is not empty.                               *)
(***************************************************************************)
EpsmInit == Init /\ scheduler = "EPSM"

\* Weak fairness of Next, written out: Next is enabled exactly while the
\* driver is setting up or the loop is running (Running), and every step of
\* Next changes vars, so WF_vars(Next) says that the program does not stop
\* forever in a state where it can go on.
Running == pc \in {"setup", "running"}

EpsmSpec ==
    EpsmInit /\ [][Next]_vars /\ ([]<>(~Running) \/ []<><<Next>>_vars)

(***************************************************************************)
(* Direct calls of the DynaNS search helpers on one submitted workflow:    *)
(* _estimate_cost, _estimate_performance and                               *)
(* _get_configuration_plan_neighbors.  call.plan is the list object that   *)
(* start_conf_plan.init_state built; every plan made from it refers to it. *)
(***************************************************************************)
\* _get_configuration_plan_neighbors: the input plan's list after the loop
\* and the neighbors in the order they were appended.  "neighbor.plan =
\* configuration_plan.plan" makes every neighbor refer to the input plan's
\* list, so each neighbor's plan reads as that list does when the loop has
\* ended; types are the VM types the loop ran over (ghost).
get_configuration_plan_neighbors(plan, level) ==
    With(get_vm_types(vm_types, plan[level + 1]), LAMBDA faster :
        [plan |-> write_neighbors(plan, level, faster),
         neighbors |-> [k \in 1..Len(faster) |->
                           [level |-> level + 1,
                            plan |-> write_neighbors(plan, level, faster)]],
         types |-> faster])

DynaInit ==
    /\ scheduler = "DynaNS"
    /\ predict_func = "io_consumption"
    /\ provision_delay \in ProvisionDelays
    /\ vm_types \in {get_vm_types_from_json, SortedByPrice(CatalogS4)}
    /\ \E sh \in Shapes, pr \in {"cpu", "io"} :
           workload = << WorkflowInput(1, sh, pr, <<8000, 20>>, <<0, 0>>) >>
    /\ submitted = 0
    /\ event_queue = <<>>
    /\ next_seq = 0
    /\ last_event = NoEvent
    /\ current_time = 0
    /\ workflows = << Workflow(workload[1], 1) >>
    /\ vms = <<>>
    /\ idle_vms = {}
    /\ collector = MetricCollector(1)
    /\ pc = "dyna"
    /\ call = [op |-> "init_state", plan |-> init_state(workload[1].tasks),
               level |-> 0, before |-> <<>>, neighbors |-> <<>>,
               types |-> <<>>, result |-> 0]

DynaFrame ==
    UNCHANGED << scheduler, predict_func, provision_delay, vm_types,
                 workload, submitted, event_queue, next_seq, last_event,
                 current_time, vms, idle_vms, collector, pc >>

\* _estimate_cost(workflow_uuid, configuration_plan) for a plan of the
\* search: it leaves each task's estimated_time under that plan.
Call_estimate_cost ==
    /\ pc = "dyna"
    /\ workflows' = [workflows EXCEPT ![1].tasks =
                         estimate_cost(workflows[1], call.plan)[2]]
    /\ call' = [call EXCEPT !.op = "estimate_cost",
                            !.result = estimate_cost(workflows[1],
                                                     call.plan)[1]]
    /\ DynaFrame

\* _estimate_performance(workflow_uuid)
Call_estimate_performance ==
    /\ pc = "dyna"
    /\ call' = [call EXCEPT !.op = "estimate_performance",
                            !.result = estimate_performance(
                                           workflows[1].tasks)]
    /\ UNCHANGED workflows
    /\ DynaFrame

\* _get_configuration_plan_neighbors(configuration_plan) for a plan of the
\* search at any level that has a position in the list.
Call_get_configuration_plan_neighbors ==
    /\ pc = "dyna"
    /\ \E level \in 0..(Len(call.plan) - 1) :
           With(get_configuration_plan_neighbors(call.plan, level),
                LAMBDA res :
                    call' = [op |-> "get_configuration_plan_neighbors",
                             plan |-> res.plan, level |-> level,
                             before |-> call.plan,
                             neighbors |-> res.neighbors,
                             types |-> res.types, result |-> 0])
    /\ UNCHANGED workflows
    /\ DynaFrame

DynaNext ==
    \/ Call_estimate_cost
    \/ Call_estimate_performance
    \/ Call_get_configuration_plan_neighbors

DynaSpec == DynaInit /\ [][DynaNext]_vars

\* The constraints of a workflow are feasible: the deadline 8000 leaves room
\* for its longest chain on any VM type with every delay, and the budget 20
\* pays a VM of the dearest type for each of its (at most 4) tasks.
Feasible(wfin) == wfin.deadline = 8000 /\ wfin.budget = 20

FeasibleConstraints == \A w \in DOMAIN workload : Feasible(workload[w])

AllTasksFinished ==
    /\ Len(workflows) = Len(workload)
    /\ \A w \in DOMAIN workflows : \A t \in DOMAIN workflows[w].tasks :
           workflows[w].tasks[t].state = "FINISHED"

ParentsFinished(w, t) ==
    \A p \in workflows[w].tasks[t].parents :
        workflows[w].tasks[p].state = "FINISHED"

\* The FINISH_TASK events of the queue that reference VM v.
PendingFinishes(v) ==
    {i \in DOMAIN event_queue :
        event_queue[i].type = "FINISH_TASK" /\ event_queue[i].vm = v}

\* C1: virtual time never decreases from one dispatch to the next (handlers
\* enqueue only at start_time >= current_time).
C1_TimeNonDecreasing ==
    [][last_event.type # "NONE" => current_time' >= current_time]_vars

\* C2: with feasible constraints, under every scheduler, the run does not
\* abort, and when the loop has ended every task of every submitted workflow
\* is FINISHED.
C2_EndsWithAllTasksFinished ==
    FeasibleConstraints =>
        /\ pc # "raised"
        /\ pc = "finished" => AllTasksFinished

\* C3: a task is SCHEDULED or FINISHED, or has a SCHEDULE_TASK event in the
\* queue, only if each of its parents is FINISHED.
C3_ParentsFinishedBeforeScheduled ==
    /\ \A w \in DOMAIN workflows : \A t \in DOMAIN workflows[w].tasks :
           workflows[w].tasks[t].state \in {"SCHEDULED", "FINISHED"}
               => ParentsFinished(w, t)
    /\ \A i \in DOMAIN event_queue :
           event_queue[i].type = "SCHEDULE_TASK"
               => ParentsFinished(event_queue[i].task[1],
                                  event_queue[i].task[2])

\* A task with parents is SCHEDULED and its SCHEDULE_TASK event is queued.
C3_Witness ==
    \E i \in DOMAIN event_queue :
        /\ event_queue[i].type = "SCHEDULE_TASK"
        /\ LET w == event_queue[i].task[1]
               t == event_queue[i].task[2]
           IN  /\ workflows[w].tasks[t].parents # {}
               /\ workflows[w].tasks[t].state = "SCHEDULED"

\* C4: a BUSY VM has exactly one pending FINISH_TASK event that references
\* it, and a VM in any other state has none.
C4_OneFinishPerBusyVm ==
    \A v \in DOMAIN vms :
        Cardinality(PendingFinishes(v))
            = IF vms[v].state = "BUSY" THEN 1 ELSE 0

\* A VM that was released before is BUSY again while another VM is idle.
C4_Witness ==
    \E v \in DOMAIN vms :
        /\ vms[v].state = "BUSY"
        /\ <<"BUSY", "PROVISIONED">> \in vms[v].transitions
        /\ idle_vms # {}

\* C5: every VM of the idle set is PROVISIONED, also after the final
\* shutdown_vms.
C5_IdleVmsAreProvisioned ==
    \A v \in idle_vms : vms[v].state = "PROVISIONED"

\* C6: the only changes of a VM's state are NOT_PROVISIONED->PROVISIONED,
\* PROVISIONED->BUSY, BUSY->PROVISIONED and PROVISIONED->SHUTDOWN; none
\* leaves SHUTDOWN.
C6_VmStateMachine ==
    \A v \in DOMAIN vms :
        vms[v].transitions \subseteq
            { <<"NOT_PROVISIONED", "PROVISIONED">>, <<"PROVISIONED", "BUSY">>,
              <<"BUSY", "PROVISIONED">>, <<"PROVISIONED", "SHUTDOWN">> }

\* One VM has made all four changes, another was shut down during the run.
C6_Witness ==
    /\ pc = "running"
    /\ \E v \in DOMAIN vms : vms[v].state = "SHUTDOWN"
    /\ \E v \in DOMAIN vms : Cardinality(vms[v].transitions) = 4

\* C7: when the loop has ended, collector.cost is the sum of
\* vm.calculate_cost() over all VMs init_vm created.
C7_CostIsSumOverVms ==
    pc = "finished" =>
        /\ \A v \in DOMAIN vms : vms[v].state = "SHUTDOWN"
        /\ collector.cost
               = SeqSum([v \in DOMAIN vms |-> calculate_cost(vms[v], None)])

\* The loop has ended; VMs were shut down both during the run and at the
\* end, and the total is positive.
C7_Witness ==
    /\ pc = "finished"
    /\ collector.removed_vms > 0
    /\ collector.vms_left > 0
    /\ collector.cost > 1

\* C8: events of equal start_time are dispatched in the order they were
\* added: none that was added before the dispatched one is still queued.
C8_FifoAmongEqualTimes ==
    \A i \in DOMAIN event_queue :
        event_queue[i].start_time = last_event.start_time
            => event_queue[i].seq > last_event.seq

\* C9 as stated: on a completed run with feasible constraints
\* scheduled_tasks = workflows_total_tasks = finished_tasks.
C9_CountersAllEqual ==
    pc = "finished" /\ FeasibleConstraints =>
        /\ collector.scheduled_tasks = collector.workflows_total_tasks
        /\ collector.workflows_total_tasks = collector.finished_tasks

\* C9 amended: on a completed run finished_tasks = workflows_total_tasks
\* and scheduled_tasks, the number of SCHEDULE_TASK dispatches, is at least
\* that; it is equal under every scheduler but EPSM, which postpones.
C9_CountersOnCompletedRun ==
    pc = "finished" =>
        /\ collector.finished_tasks = collector.workflows_total_tasks
        /\ collector.scheduled_tasks >= collector.workflows_total_tasks
        /\ scheduler # "EPSM" =>
               collector.scheduled_tasks = collector.workflows_total_tasks

\* A completed EPSM run with feasible constraints in which a postponed task
\* was dispatched twice.
C9_Witness ==
    /\ pc = "finished"
    /\ FeasibleConstraints
    /\ scheduler = "EPSM"
    /\ collector.finished_tasks = collector.workflows_total_tasks
    /\ collector.scheduled_tasks > collector.workflows_total_tasks

\* C10 as stated: the FINISH_TASK event of a task is dispatched at a time
\* strictly greater than that of the SCHEDULE_TASK dispatch that placed it.
C10_FinishStrictlyAfterSchedule ==
    last_event.type = "SCHEDULE_TASK" =>
        \A i \in DOMAIN event_queue :
            event_queue[i].type = "FINISH_TASK"
                /\ event_queue[i].task = last_event.task
            => event_queue[i].start_time > last_event.start_time

\* C10 amended: the FINISH_TASK event is dispatched at a time not before
\* that of the SCHEDULE_TASK dispatch that placed the task.
C10_FinishNotBeforeSchedule ==
    last_event.type = "SCHEDULE_TASK" =>
        \A i \in DOMAIN event_queue :
            event_queue[i].type = "FINISH_TASK"
                /\ event_queue[i].task = last_event.task
            => event_queue[i].start_time >= last_event.start_time

\* A SCHEDULE_TASK dispatch has just placed its task with a positive
\* execution time.
C10_Witness ==
    /\ last_event.type = "SCHEDULE_TASK"
    /\ \E i \in DOMAIN event_queue :
           /\ event_queue[i].type = "FINISH_TASK"
           /\ event_queue[i].task = last_event.task
           /\ event_queue[i].start_time > last_event.start_time

\* The MANAGE_RESOURCES events of a queue.
ManageEvents(queue) ==
    {i \in DOMAIN queue : queue[i].type = "MANAGE_RESOURCES"}

\* A MANAGE_RESOURCES dispatch whose handler enqueues a new event.
Rearming ==
    /\ pc = "running"
    /\ event_queue # <<>>
    /\ NextEvent.type = "MANAGE_RESOURCES"
    /\ next_seq' # next_seq

\* C11 as stated: whenever manage_resources enqueues a new MANAGE_RESOURCES
\* event, no other MANAGE_RESOURCES event is anywhere in the queue, and the
\* number of queued MANAGE_RESOURCES events does not grow.
C11_NoOtherManageEventQueued ==
    [][Rearming =>
           /\ ManageEvents(heappop(event_queue)[2]) = {}
           /\ Cardinality(ManageEvents(event_queue'))
                  <= Cardinality(ManageEvents(event_queue))]_vars

\* C11 amended: whenever manage_resources enqueues a new MANAGE_RESOURCES
\* event, the next event of the queue is not a MANAGE_RESOURCES event, and
\* the number of queued MANAGE_RESOURCES events does not grow.
C11_NextEventIsNotManage ==
    [][Rearming =>
           /\ peek_closest_event(heappop(event_queue)[2]) # <<>>
           /\ peek_closest_event(heappop(event_queue)[2])[1].type
                  # "MANAGE_RESOURCES"
           /\ Cardinality(ManageEvents(event_queue'))
                  <= Cardinality(ManageEvents(event_queue))]_vars

\* manage_resources has just enqueued a new MANAGE_RESOURCES event while
\* another one, armed by a second workflow's submission, is still queued.
C11_Witness ==
    /\ last_event.type = "MANAGE_RESOURCES"
    /\ \E i \in ManageEvents(event_queue) :
           /\ event_queue[i].seq = next_seq
           /\ event_queue[i].seq > last_event.seq
    /\ Cardinality(ManageEvents(event_queue)) >= 2

\* C12: when finish_task(wf, task, vm) has returned, no task of wf is still
\* CREATED with all its parents FINISHED: every such task has been marked
\* SCHEDULED, with its SCHEDULE_TASK event enqueued at current_time.
C12_ReadyTasksScheduledAtFinish ==
    last_event.type = "FINISH_TASK" /\ pc # "raised" =>
        \A t \in DOMAIN workflows[last_event.task[1]].tasks :
            ParentsFinished(last_event.task[1], t) =>
                /\ workflows[last_event.task[1]].tasks[t].state # "CREATED"
                /\ workflows[last_event.task[1]].tasks[t].state = "SCHEDULED"
                   /\ workflows[last_event.task[1]].tasks[t].start_time
                          = current_time
                   => \E i \in DOMAIN event_queue :
                          /\ event_queue[i].type = "SCHEDULE_TASK"
                          /\ event_queue[i].task = <<last_event.task[1], t>>
                          /\ event_queue[i].start_time = current_time

\* Workflow w of the workload has a deadline that _calculate_efts_and_makespan
\* cannot meet with any VM type at the time its submission is dispatched.
InfeasibleDeadline(w) ==
    ~calculate_efts_and_makespan(Workflow(workload[w], w), vm_types, 1,
                                 workload[w].time)[1]

\* C13: under EPSM, a run with a workflow of infeasible deadline still ends
\* with every task of every other (feasible) workflow FINISHED: the failure
\* does not stop the event loop.
C13_InfeasibleDeadlineIsIsolated ==
    /\ scheduler = "EPSM"
    /\ pc \in {"raised", "finished"}
    /\ \E w \in DOMAIN workload : InfeasibleDeadline(w)
    => \A w \in DOMAIN workload :
           ~InfeasibleDeadline(w) =>
               /\ w \in DOMAIN workflows
               /\ \A t \in DOMAIN workflows[w].tasks :
                      workflows[w].tasks[t].state = "FINISHED"

\* The source states a VM manager method accepts.
LegalSource(op) ==
    CASE op = "provision_vm" -> "NOT_PROVISIONED"
      [] op = "reserve_vm" -> "PROVISIONED"
      [] op = "release_vm" -> "BUSY"
      [] op = "shutdown_vm" -> "PROVISIONED"

TransitionCalls == {"provision_vm", "reserve_vm", "release_vm", "shutdown_vm"}

\* C14: a provision_vm, reserve_vm, release_vm or shutdown_vm call on a VM
\* that is not in the method's legal source state raises and leaves the VM's
\* state and the idle set as they were.
C14_IllegalTransitionRaises ==
    call.op \in TransitionCalls /\ call.from # LegalSource(call.op) =>
        /\ call.raised
        /\ vms[call.vm].state = call.from
        /\ idle_vms = call.idle

\* release_vm has just been called on a VM that was idle (PROVISIONED and in
\* the idle set) — an illegal source state.
C14_Witness ==
    /\ call.op = "release_vm"
    /\ call.from = "PROVISIONED"
    /\ call.vm \in call.idle

\* C15: the states a task has had are an initial part of CREATED, SCHEDULED,
\* FINISHED: each step is taken at most once, never backwards and never
\* skipping SCHEDULED, under every scheduler.
C15_TaskStateMachine ==
    \A w \in DOMAIN workflows : \A t \in DOMAIN workflows[w].tasks :
        /\ workflows[w].tasks[t].history
               \in { <<"CREATED">>, <<"CREATED", "SCHEDULED">>,
                     <<"CREATED", "SCHEDULED", "FINISHED">> }
        /\ workflows[w].tasks[t].state
               = workflows[w].tasks[t].history[
                     Len(workflows[w].tasks[t].history)]

\* An EPSM run in which a postponed SCHEDULE_TASK has been dispatched again
\* for an already SCHEDULED task (more SCHEDULE_TASK dispatches than tasks
\* that have left CREATED), right after a task reached FINISHED.
C15_Witness ==
    /\ scheduler = "EPSM"
    /\ last_event.type = "FINISH_TASK"
    /\ workflows[last_event.task[1]].tasks[last_event.task[2]].state
           = "FINISHED"
    /\ collector.scheduled_tasks
           > Cardinality({wt \in {<<w, t>> : w \in DOMAIN workflows, t \in 1..4} :
                            /\ wt[2] \in DOMAIN workflows[wt[1]].tasks
                            /\ workflows[wt[1]].tasks[wt[2]].state # "CREATED"})

\* ceil(x / period) for an integer x >= 0.
CeilDiv(x, period) == (x + period - 1) \div period

\* The time a calculate_cost call bills up to.
BilledUntil == IF call.time = None THEN vms[call.vm].finish_time ELSE call.time

\* C16: calculate_cost charges every started billing period in full: for a
\* finish or query time t >= start_time it returns
\* ceil((t - start_time) / billing_period) * price.
C16_EveryStartedPeriodCharged ==
    call.op = "calculate_cost" /\ BilledUntil >= vms[call.vm].start_time =>
        call.result
            = CeilDiv(BilledUntil - vms[call.vm].start_time,
                      vms[call.vm].type.billing_period)
                  * vms[call.vm].type.price

\* (now - vm.start_time) mod billing_period of a calculate_price_for_vm call.
PaidTimeLeft ==
    (call.time - vms[call.vm].start_time) % vms[call.vm].type.billing_period

\* C17: for now >= start_time and use_time >= 0, calculate_price_for_vm
\* returns 0 when use_time <= r and ceil((use_time - r) / billing_period)
\* * price otherwise, r being (now - start_time) mod billing_period.
C17_PriceIsCeilOfPeriods ==
    /\ call.op = "calculate_price_for_vm"
    /\ call.time >= vms[call.vm].start_time
    => call.result
           = IF call.use_time <= PaidTimeLeft THEN 0
             ELSE CeilDiv(call.use_time - PaidTimeLeft,
                          vms[call.vm].type.billing_period)
                      * vms[call.vm].type.price

\* C18: calculate_price_for_vm(t, 0, vm) is 0 for every VM and every
\* t >= vm.start_time.
C18_ZeroUseTimeIsFree ==
    /\ call.op = "calculate_price_for_vm"
    /\ call.use_time = 0
    /\ call.time >= vms[call.vm].start_time
    => call.result = 0

\* calculate_price_for_vm was called with use_time 0 in the middle of a paid
\* period of the VM.
C18_Witness ==
    /\ call.op = "calculate_price_for_vm"
    /\ call.use_time = 0
    /\ call.time > vms[call.vm].start_time
    /\ PaidTimeLeft > 0

\* C19: right after EBPSM's submit_workflow has preprocessed a workflow, the
\* budgets of its tasks and its spare budget add up to the workflow's budget.
C19_BudgetIsConserved ==
    /\ scheduler = "EBPSM"
    /\ last_event.type = "SUBMIT_WORKFLOW"
    /\ pc # "raised"
    => SeqSum([t \in DOMAIN workflows[last_event.workflow].tasks |->
                  workflows[last_event.workflow].tasks[t].budget])
           + workflows[last_event.workflow].spare_budget
       = workflows[last_event.workflow].budget

\* The plans the Dyna search of workflow w examined (popped from opened)
\* whose estimated performance meets the deadline at the time of search.
FeasibleExamined(w, now) ==
    {i \in DOMAIN workflows[w].examined :
        now + workflows[w].examined[i].perf <= workflows[w].deadline}

AllSlowest(w) ==
    [i \in DOMAIN workflows[w].tasks |-> get_slowest_vm_type(vm_types)]

\* C21: in scenario S4 the DynaNS search ends within max_iter iterations and
\* the configuration plan recorded on the workflow assigns the slowest type
\* to every task.
C21_PlanIsAllSlowest ==
    /\ scheduler = "DynaNS"
    /\ last_event.type = "SUBMIT_WORKFLOW"
    /\ pc # "raised"
    => /\ Len(workflows[last_event.workflow].examined)
              <= on_demand_conf_max_iter
       /\ workflows[last_event.workflow].configuration_plan
              = AllSlowest(last_event.workflow)

\* What the documentation of get_idle_vms promises for the arguments of
\* the recorded call.
HoldsInputs(v, task) == Range(task.input_files) \subseteq vms[v].files

\* C22: get_idle_vms(task=T) returns exactly the idle VMs holding every
\* input file of T, get_idle_vms(container=C) exactly the idle VMs with C
\* provisioned, both arguments give the union, and no argument the whole
\* idle set.
C22_IdleVmsFilteredByFilesAndContainer ==
    call.op = "get_idle_vms"
    => call.result =
           IF call.task = <<>> /\ call.container = <<>>
           THEN idle_vms
           ELSE {v \in idle_vms :
                   \/ /\ call.task # <<>>
                      /\ HoldsInputs(v, call.task[1])
                   \/ /\ call.container # <<>>
                      /\ call.container[1] \in vms[v].containers}

\* The storage read terms of a prediction as documented: one per input
\* file that the given VM does not already hold.
RECURSIVE StorageReads(_, _)
StorageReads(files, vmopt) ==
    IF files = <<>> THEN 0
    ELSE (IF vmopt = <<>> \/ Head(files) \notin vms[vmopt[1]].files
          THEN size_in_megabits(Head(files)) \div read_rate ELSE 0)
         + StorageReads(Tail(files), vmopt)

\* The terms of a prediction other than the storage reads.
OtherTerms(name, task, vm_type, vmopt) ==
    provision_part(task, IF vmopt = <<>> THEN <<>> ELSE <<vms[vmopt[1]]>>,
                   30, provision_delay)
    + SeqSum([i \in DOMAIN task.input_files |->
                (size_in_megabits(task.input_files[i]) * vm_type.scale)
                    \div vm_type.io_bandwidth])
    + output_part(task.output_files, vm_type)
    + IF name = "io_and_runtime"
      THEN (task.runtime * vm_type.scale) \div vm_type.cpu ELSE 0

\* C28: in both prediction models the storage read of an input file f is
\* added exactly when vm is None or f is not in vm.files.
C28_StorageReadUnlessFileOnVm ==
    call.op = "predict"
    => call.result =
           OtherTerms(predict_func, call.task[1], vm_types[call.vm_type],
                      call.vm)
           + StorageReads(call.task[1].input_files, call.vm)

\* C23: after a completed simulation every workflow's Stats has exactly
\* one of deadline and budget set, and parse_constraints passes its
\* assertion for every workflow.
C23_ExactlyOneConstraintRecorded ==
    pc = "finished"
    => /\ \A w \in DOMAIN collector.workflows :
              (collector.workflows[w].deadline # None)
                  # (collector.workflows[w].budget # None)
       /\ parse_constraints(collector).error # "AssertionError"

\* C24: scenario S1 (one task of 3600 s, no files, no provisioning delay,
\* deadline = submit_time + 7200, io_and_runtime, EPSM): the completed run
\* placed the task on a VM of type slow, the workflow finished at
\* submit_time + 3600, collector.cost is 1 and constraint_met is true.
C24_ScenarioS1 ==
    scheduler = "EPSM" /\ pc = "finished"
    => /\ collector.workflows[1].used_vms # {}
       /\ \A v \in collector.workflows[1].used_vms :
              vms[v].type.name = "slow"
       /\ collector.workflows[1].finish_time
              = workload[1].submit_time + 3600
       /\ collector.cost = 1
       /\ parse_constraints(collector).error = ""
       /\ parse_constraints(collector).workflows[1].constraint_met

C24_Witness ==
    /\ scheduler = "EPSM" /\ pc = "finished"
    /\ workload[1].submit_time = 60
    /\ \E v \in DOMAIN vms : vms[v].state = "SHUTDOWN"

\* C25: under EBPSM, while events remain queued no VM stays idle
\* (PROVISIONED and unreserved) for longer than idle_vm_threshold plus one
\* provisioning interval: a VM that is idle before and after a step of the
\* event loop has been idle for the whole time between the two events, so
\* no such step advances the clock by more than that.
C25_IdleVmsShutDownAfterThreshold ==
    [][scheduler = "EBPSM" /\ pc = "running" /\ pc' = "running"
       => \A v \in idle_vms \cap idle_vms' :
              /\ vms[v].state = "PROVISIONED"
              /\ vms'[v].state = "PROVISIONED"
              => current_time' - current_time
                     <= idle_vm_threshold + ebpsm_provisioning_interval]_vars

\* C26: set_billing_period(p) preserves the price per second of every VM
\* type: afterwards billing_period == p and
\* new_price * old_period == old_price * p.
C26_PricePerSecondPreserved ==
    call.op = "set_billing_period" /\ call.period # None
    => /\ call.result = call.period
       /\ \A k \in DOMAIN vm_types :
              /\ vm_types[k].billing_period = call.period
              /\ fmul_int(vm_types[k].price, call.before[k].billing_period)
                     = fmul_int(call.before[k].price, call.period)

\* Two floats that are equal or next to each other.
OneUlpApart(x, y) == x = y \/ Succ(x) = y \/ Succ(y) = x

\* C26 (amended): afterwards billing_period == p for every type, and
\* new_price * old_period is old_price * p or a float next to it: the
\* price per second is preserved up to the rounding of the quotient.
C26_PricePerSecondPreservedUpToRounding ==
    call.op = "set_billing_period" /\ call.period # None
    => /\ call.result = call.period
       /\ \A k \in DOMAIN vm_types :
              /\ vm_types[k].billing_period = call.period
              /\ OneUlpApart(
                     fmul_int(vm_types[k].price,
                              call.before[k].billing_period),
                     fmul_int(call.before[k].price, call.period))

\* A rescaling of a catalog with two different billing periods whose
\* quotient is not exact for one type and exact for the other.
C26_Witness ==
    /\ call.op = "set_billing_period" /\ call.period # None
    /\ call.before[1].billing_period # call.before[2].billing_period
    /\ fmul_int(vm_types[1].price, call.before[1].billing_period)
           # fmul_int(call.before[1].price, call.period)
    /\ fmul_int(vm_types[2].price, call.before[2].billing_period)
           = fmul_int(call.before[2].price, call.period)

\* The earliest finish time of task i on vm_type, from the DAG: its
\* predicted execution time after the latest of its parents.
RECURSIVE EftOn(_, _, _)
EftOn(tasks, i, vm_type) ==
    predict(predict_func, tasks[i], vm_type, <<>>,
            tasks[i].container.provision_time, provision_delay)
    + SetMax({EftOn(tasks, p, vm_type) : p \in tasks[i].parents})

MakespanOn(tasks, vm_type) ==
    SetMax({EftOn(tasks, i, vm_type) : i \in 1..Len(tasks)})

\* The catalog types that meet the deadline of workflow w submitted now.
TypesMeetingDeadline(w) ==
    {k \in DOMAIN vm_types :
        current_time + MakespanOn(workflows[w].tasks, vm_types[k])
            <= workload[w].deadline}

\* C27: EPSM preprocessing accepts the cheapest catalog type T with
\* current_time + makespan(T) <= deadline, leaving the EFTs and the
\* makespan computed for T, and raises iff no type satisfies it.
C27_CheapestTypeMeetingDeadline ==
    scheduler = "EPSM" /\ last_event.type = "SUBMIT_WORKFLOW"
    => LET w == last_event.workflow
           ok == TypesMeetingDeadline(w)
       IN  IF ok = {} THEN pc = "raised"
           ELSE /\ pc # "raised"
                /\ \E k \in ok :
                       /\ \A j \in ok : vm_types[k].price <= vm_types[j].price
                       /\ workflows[w].makespan
                              = MakespanOn(workflows[w].tasks, vm_types[k])
                       /\ \A i \in 1..Len(workflows[w].tasks) :
                              workflows[w].tasks[i].eft
                                  = EftOn(workflows[w].tasks, i, vm_types[k])

\* A workflow was accepted on the second type only: the cheapest type
\* misses the deadline by one step of the inequality or more.
C27_Witness ==
    /\ scheduler = "EPSM" /\ last_event.type = "SUBMIT_WORKFLOW"
    /\ TypesMeetingDeadline(last_event.workflow) = {2}
    /\ pc = "running"

\* A workflow was accepted with current_time + makespan equal to the
\* deadline.
C27_WitnessInclusive ==
    /\ scheduler = "EPSM" /\ last_event.type = "SUBMIT_WORKFLOW"
    /\ pc = "running"
    /\ current_time + workflows[last_event.workflow].makespan
           = workload[last_event.workflow].deadline

\* The FINISH_TASK event queued for task <<w, t>>.
FinishEventOf(queue, w, t) ==
    CHOOSE i \in DOMAIN queue :
        queue[i].type = "FINISH_TASK" /\ queue[i].task = <<w, t>>

\* The price Min-MinBUDG's host search computed for the host of the
\* FINISH_TASK event ev, queued by a schedule_task at time now in the
\* state before it: a VM that did not exist was chosen as a VM type, any
\* other as an idle instance.
ChosenHostPrice(ev, now) ==
    IF ev.vm > Len(vms)
    THEN estimate_price_for_vm_type(ev.start_time - now, vms'[ev.vm].type)
    ELSE calculate_price_for_vm(now, ev.start_time - now, vms[ev.vm])

\* C29: after Min-MinBUDG schedule_task, workflow.pot is task.budget plus
\* the previous pot minus the price of the host chosen, whichever host
\* that is.  (Budgets and pot are fractions over the workflow's makespan.)
C29_PotIsBudgetMinusHostPrice ==
    [][scheduler = "Min-MinBUDG" /\ pc = "running" /\ pc' = "running"
       /\ event_queue # <<>> /\ NextEvent.type = "SCHEDULE_TASK"
       => LET w == NextEvent.task[1]
              t == NextEvent.task[2]
              ev == event_queue'[FinishEventOf(event_queue', w, t)]
          IN  workflows'[w].pot.num
                  = workflows[w].tasks[t].budget.num + workflows[w].pot.num
                    - ChosenHostPrice(ev, NextEvent.start_time)
                          * workflows[w].pot.den]_vars

\* C30: in DynaNS and Min-MinBUDG finish_task at time t, an idle VM v (the
\* released VM included) is shut down iff v's own
\* time_until_next_billing_period(t, v) < time_to_shutdown_vm.
\* The idle VMs finish_task looks at nears the end of its own billing
\* period at time now.
NearsNextPeriod(v, now) ==
    time_until_next_billing_period(now, vms[v]) < time_to_shutdown_vm

C30_IdleVmJudgedByItsOwnPeriod ==
    [][(/\ scheduler \in {"DynaNS", "Min-MinBUDG"}
        /\ pc = "running" /\ pc' = "running"
        /\ event_queue # <<>> /\ NextEvent.type = "FINISH_TASK")
       => (\A v \in idle_vms \cup {NextEvent.vm} :
              (vms[v].state # "SHUTDOWN")
              => ((vms'[v].state = "SHUTDOWN")
                      = NearsNextPeriod(v, NextEvent.start_time)))]_vars

(***************************************************************************)
(* EPSM schedule_task when no idle VM fits.                                *)
(***************************************************************************)
\* The events of queue of the given type for task <<w, t>>.
TaskEvents(queue, type, w, t) ==
    {i \in 1..Len(queue) : queue[i].type = type /\ queue[i].task = <<w, t>>}

\* The next event is a SCHEDULE_TASK under EPSM and no idle VM can finish
\* its task by the task's deadline.
NoIdleVmFits ==
    /\ pc = "running"
    /\ scheduler = "EPSM"
    /\ event_queue # <<>>
    /\ NextEvent.type = "SCHEDULE_TASK"
    /\ LET task == workflows[NextEvent.task[1]].tasks[NextEvent.task[2]]
       IN  \A v \in idle_vms :
               (NextEvent.start_time + epsm_exec_time_on(St, task, v))
                   * task.deadline.den > task.deadline.num

\* C31: in EPSM schedule_task, when no idle VM of any tier can finish the
\* task by its deadline, a new VM is created and the task placed on it
\* (the VM is BUSY and the task's FINISH_TASK names it) if and only if
\* time_left - execution_time_prediction - scheduling_interval <= 0 or the
\* task has no parents; otherwise no VM is created or reserved and exactly
\* one SCHEDULE_TASK for the task is enqueued, at current_time +
\* scheduling_interval.
C31_NewVmOrPostponed ==
    [][NoIdleVmFits =>
         LET w == NextEvent.task[1]
             t == NextEvent.task[2]
             now == NextEvent.start_time
             task == workflows[w].tasks[t]
             no_time_left ==
                 task.deadline.num
                     - (now + task.execution_time_prediction
                            + scheduling_interval) * task.deadline.den <= 0
             created ==
                 /\ Len(vms') = Len(vms) + 1
                 /\ vms'[Len(vms')].state = "BUSY"
                 /\ \E i \in TaskEvents(event_queue', "FINISH_TASK", w, t) :
                        event_queue'[i].vm = Len(vms')
                 /\ TaskEvents(event_queue', "SCHEDULE_TASK", w, t) = {}
             postponed ==
                 /\ vms' = vms
                 /\ idle_vms' = idle_vms
                 /\ TaskEvents(event_queue', "FINISH_TASK", w, t) = {}
                 /\ Cardinality(TaskEvents(event_queue', "SCHEDULE_TASK",
                                           w, t)) = 1
                 /\ \A i \in TaskEvents(event_queue', "SCHEDULE_TASK", w, t) :
                        event_queue'[i].start_time = now + scheduling_interval
         IN  IF no_time_left \/ task.parents = {} THEN created
             ELSE postponed]_vars

\* A task with parents was postponed: EPSM has just handled its
\* SCHEDULE_TASK, created no VM for it and re-enqueued it one scheduling
\* interval later.
C31_Witness ==
    /\ scheduler = "EPSM"
    /\ pc = "running"
    /\ last_event.type = "SCHEDULE_TASK"
    /\ workflows[last_event.task[1]].tasks[last_event.task[2]].parents # {}
    /\ \E i \in TaskEvents(event_queue, "SCHEDULE_TASK", last_event.task[1],
                           last_event.task[2]) :
           event_queue[i].start_time = current_time + scheduling_interval

(***************************************************************************)
(* EPSM: postponed tasks.                                                  *)
(***************************************************************************)
\* The re-enqueued SCHEDULE_TASK events of queue: those later than the
\* time their task was first scheduled at.
Retries(queue) ==
    {i \in 1..Len(queue) :
        /\ queue[i].type = "SCHEDULE_TASK"
        /\ queue[i].start_time
               > workflows[queue[i].task[1]].tasks[queue[i].task[2]].start_time}

\* Every re-enqueued SCHEDULE_TASK leaves room for the task before its
\* deadline: start_time + execution_time_prediction < task.deadline, so a
\* task first scheduled at s is retried fewer than
\* (deadline - execution_time_prediction - s) / scheduling_interval times.
RetriesLeaveRoom ==
    \A i \in Retries(event_queue) :
        LET task == workflows[event_queue[i].task[1]].tasks[
                        event_queue[i].task[2]]
        IN  (event_queue[i].start_time + task.execution_time_prediction)
                * task.deadline.den < task.deadline.num

\* C32: under EPSM each task is postponed only finitely many times: every
\* re-enqueued SCHEDULE_TASK lies before the task's deadline minus its
\* predicted execution time (which bounds the number of retries), and every
\* queued SCHEDULE_TASK leads to the task's FINISH_TASK being enqueued on a
\* VM, whatever idle VMs exist and however the events of other workflows
\* interleave.
C32_PostponedFinitelyOften ==
    /\ [](scheduler = "EPSM" => RetriesLeaveRoom)
    /\ \A w \in 1..MaxWorkflows : \A t \in 1..4 :
           (TaskEvents(event_queue, "SCHEDULE_TASK", w, t) # {})
               ~> (\E i \in TaskEvents(event_queue, "FINISH_TASK", w, t) :
                       vms[event_queue[i].vm].state = "BUSY")

\* A postponed task was assigned a VM: its SCHEDULE_TASK was dispatched
\* later than the task was first scheduled, and its FINISH_TASK is queued.
C32_Witness ==
    /\ scheduler = "EPSM"
    /\ last_event.type = "SCHEDULE_TASK"
    /\ last_event.start_time
           > workflows[last_event.task[1]].tasks[last_event.task[2]].start_time
    /\ TaskEvents(event_queue, "FINISH_TASK", last_event.task[1],
                  last_event.task[2]) # {}

RECURSIVE PathFinish(_, _)
PathFinish(tasks, i) ==
    SetMax({PathFinish(tasks, p) : p \in tasks[i].parents})
    + tasks[i].estimated_time

\* C34: _estimate_performance returns the length of the longest path of the
\* workflow DAG when each task weighs its estimated_time: the maximum over
\* all tasks of finish(task), with finish(task) = max over parents of
\* finish(parent) + estimated_time(task), for DAGs of any depth.
C34_PerformanceIsLongestPath ==
    (call.op = "estimate_performance")
    => (call.result
            = SetMax({PathFinish(workflows[1].tasks, i) :
                          i \in 1..Len(workflows[1].tasks)}))

\* C35: _get_configuration_plan_neighbors(plan) returns one neighbor per VM
\* type strictly faster than plan[level], each with level + 1 and a vector
\* that holds that type at position level and differs from the input plan's
\* vector only there; the input plan's vector is what it was before the
\* call.
C35_NeighborsDifferAtLevelOnly ==
    (call.op = "get_configuration_plan_neighbors")
    => /\ Len(call.neighbors)
              = Cardinality({k \in DOMAIN vm_types :
                                vm_types[k].price
                                    > call.before[call.level + 1].price})
       /\ \A k \in DOMAIN call.neighbors :
              /\ call.neighbors[k].level = call.level + 1
              /\ call.neighbors[k].plan[call.level + 1] = call.types[k]
              /\ call.types[k].price > call.before[call.level + 1].price
              /\ \A i \in DOMAIN call.before :
                     i # call.level + 1
                         => call.neighbors[k].plan[i] = call.before[i]
       /\ \A k, j \in DOMAIN call.neighbors :
              k # j => call.types[k] # call.types[j]
       /\ call.plan = call.before

(***************************************************************************)
(* EBPSM preprocessing: levels and the EEOQ.                               *)
(***************************************************************************)
\* The levels of workflow wf that hold task t.
LevelsOf(wf, t) == {d \in DOMAIN wf.levels : t \in wf.levels[d]}

\* C37: after EBPSM preprocessing every task of the workflow belongs to
\* exactly one level and appears exactly once in the EEOQ, and the EEOQ
\* lists the levels in ascending order and the tasks of one level in
\* ascending EFT order, for any workflow DAG.
C37_EveryTaskOnceInEeoq ==
    (scheduler = "EBPSM")
    => \A w \in DOMAIN workflows :
           LET wf == workflows[w]
           IN  /\ \A t \in 1..Len(wf.tasks) :
                      /\ Cardinality(LevelsOf(wf, t)) = 1
                      /\ Cardinality({i \in DOMAIN wf.eeoq :
                                         wf.eeoq[i] = t}) = 1
               /\ \A i, j \in DOMAIN wf.eeoq :
                      i < j =>
                          \E di \in LevelsOf(wf, wf.eeoq[i]),
                             dj \in LevelsOf(wf, wf.eeoq[j]) :
                              /\ di <= dj
                              /\ di = dj =>
                                     wf.tasks[wf.eeoq[i]].eft
                                         <= wf.tasks[wf.eeoq[j]].eft

(***************************************************************************)
(* EBPSM finish_task: rebalancing of the budget.                           *)
(***************************************************************************)
\* The sum of the budgets that the tasks of list hold in workflow wf.
BudgetOf(wf, list) ==
    SeqSum([i \in 1..Len(list) |-> wf.tasks[list[i]].budget])

\* The amount finish_task redistributes when task t of wf has finished:
\* the unscheduled budgets plus the credited spare budget, or minus the
\* debt.
Redistributed(wf, t) ==
    LET task == wf.tasks[t]
    IN  IF task.execution_price < task.budget + wf.spare_budget
        THEN BudgetOf(wf, wf.unscheduled_tasks)
                 + (wf.spare_budget + task.budget - task.execution_price)
        ELSE BudgetOf(wf, wf.unscheduled_tasks)
                 - (task.execution_price - (task.budget + wf.spare_budget))

\* C38: after every EBPSM finish_task the budgets of the tasks that were
\* unscheduled when the task finished plus workflow.spare_budget add up to
\* the amount that was redistributed, whatever that amount is: rebalancing
\* neither creates nor loses budget.
C38_RebalancingConservesBudget ==
    [][(/\ scheduler = "EBPSM"
        /\ pc = "running" /\ pc' = "running"
        /\ event_queue # <<>>
        /\ NextEvent.type = "FINISH_TASK")
       => LET w == NextEvent.task[1]
          IN  BudgetOf(workflows'[w], workflows[w].unscheduled_tasks)
                  + workflows'[w].spare_budget
                  = Redistributed(workflows[w], NextEvent.task[2])]_vars

(***************************************************************************)
(* EPSM: the type of a newly provisioned VM.                               *)
(***************************************************************************)
\* The catalog positions whose type finishes task by its deadline when
\* started on a new VM at time now (VM and container provisioning
\* included), the comparison being inclusive.
TypesInTime(task, now) ==
    {k \in DOMAIN vm_types :
        (now + predict(predict_func, task, vm_types[k], <<>>,
                       task.container.provision_time, provision_delay))
            * task.deadline.den <= task.deadline.num}

\* C36: when EPSM provisions a new VM for a task it picks the first
\* (cheapest) catalog type whose predicted finish, current_time + exec_time
\* with VM and container provisioning, is <= the task's deadline (a type
\* finishing exactly at the deadline is accepted), and the fastest type
\* only if no type qualifies.
C36_NewVmTypeIsCheapestInTime ==
    [][(/\ scheduler = "EPSM"
        /\ pc = "running"
        /\ event_queue # <<>>
        /\ NextEvent.type = "SCHEDULE_TASK"
        /\ Len(vms') = Len(vms) + 1)
       => LET task == workflows[NextEvent.task[1]].tasks[NextEvent.task[2]]
              in_time == TypesInTime(task, NextEvent.start_time)
          IN  vms'[Len(vms')].type
                  = IF in_time = {} THEN vm_types[Len(vm_types)]
                    ELSE vm_types[CHOOSE k \in in_time :
                                      \A j \in in_time : k <= j]]_vars

(***************************************************************************)
(* The VM counters of the collector at the end of the run.                 *)
(***************************************************************************)
\* C39: when the event loop has terminated, under every scheduler,
\* collector.initialized_vms == collector.removed_vms + collector.vms_left,
\* initialized_vms counts every VM created during the run, and each of them
\* is in state SHUTDOWN.
C39_EveryVmCountedOnce ==
    (pc = "finished")
    => /\ collector.initialized_vms
              = collector.removed_vms + collector.vms_left
       /\ collector.initialized_vms = Len(vms)
       /\ \A v \in DOMAIN vms : vms[v].state = "SHUTDOWN"

\* A completed run in which the scheduler removed a VM during the run and
\* another VM was left idle and shut down at the end of the loop.
C39_Witness ==
    /\ pc = "finished"
    /\ collector.removed_vms > 0
    /\ collector.vms_left > 0

(***************************************************************************)
(* The order of the catalog after set_billing_period.                      *)
(***************************************************************************)
\* x <= y for two positive floats (normalized significands of Precision
\* bits, most significant digit first).
FloatLe(x, y) ==
    \/ x.e < y.e
    \/ /\ x.e = y.e
       /\ \/ x.m = y.m
          \/ \E i \in DOMAIN x.m :
                 /\ x.m[i] < y.m[i]
                 /\ \A j \in 1..(i - 1) : x.m[j] = y.m[j]

\* C40: after set_billing_period(p) the catalog list is still sorted
\* ascending by price, for any catalog (also one whose types had different
\* billing periods): get_slowest_vm_type() is a cheapest type,
\* get_fastest_vm_type() a most expensive one, and get_vm_types(faster_than
\* = T) holds only types priced at least as high as T.
C40_CatalogStaysSortedByPrice ==
    (call.op = "set_billing_period")
    => /\ \A k \in 1..(Len(vm_types) - 1) :
              FloatLe(vm_types[k].price, vm_types[k + 1].price)
       /\ \A k \in DOMAIN vm_types :
              /\ FloatLe(get_slowest_vm_type(vm_types).price,
                         vm_types[k].price)
              /\ FloatLe(vm_types[k].price,
                         get_fastest_vm_type(vm_types).price)
              /\ \A j \in DOMAIN get_vm_types(vm_types, vm_types[k]) :
                     FloatLe(vm_types[k].price,
                             get_vm_types(vm_types, vm_types[k])[j].price)

====
